---------------------------- MODULE Spec2Model ----------------------------
(***************************************************************************)
(* Model of the DAC entity linker (src/dac.py, src/dictionary.py):         *)
(* EntityLinker.link with its cluster work loop, the cluster builder,      *)
(* Entity construction and spelling substitution, candidate retrieval,     *)
(* hard filtering, ranking and the assembly of the response.               *)
(*                                                                         *)
(* Python strings are sequences of one-character strings, so that          *)
(* normalisation, splitting, endswith and the substitution rules are       *)
(* computed character by character as the code computes them.              *)
(* The value None is the string "None" for scalars and the empty sequence  *)
(* for words (a word is never empty); a missing year is 0.                 *)
(***************************************************************************)
EXTENDS Integers, Sequences, FiniteSets, TLC

(***************************************************************************)
(* Bounds of the model.                                                    *)
(***************************************************************************)
\* longest list of mentions the NER service returns for an article
MaxMentions == 2

(***************************************************************************)
(* Characters and strings.                                                 *)
(***************************************************************************)
UPPER == <<"A","B","C","D","E","F","G","H","I","J","K","L","M","N","O","P",
           "Q","R","S","T","U","V","W","X","Y","Z">>

LOWER == <<"a","b","c","d","e","f","g","h","i","j","k","l","m","n","o","p",
           "q","r","s","t","u","v","w","x","y","z">>

DIGITS == <<"0","1","2","3","4","5","6","7","8","9">>

\* code point order of the characters a normalised string is made of
ORDER == <<" ">> \o DIGITS \o LOWER

Range(s) == {s[i] : i \in DOMAIN s}

\* the list a comprehension builds
list(f) == f \o <<>>

IsLetter(c) == c \in Range(LOWER) \cup Range(UPPER)

IsDigit(c) == c \in Range(DIGITS)

CharOrd(c) == CHOOSE i \in DOMAIN ORDER : ORDER[i] = c

lower(c) ==
    IF c \in Range(UPPER)
    THEN LOWER[CHOOSE i \in DOMAIN UPPER : UPPER[i] = c]
    ELSE c

RECURSIVE SplitAcc(_, _, _)
SplitAcc(s, cur, acc) ==
    IF s = <<>>
    THEN IF cur = <<>> THEN acc ELSE Append(acc, cur)
    ELSE IF Head(s) \in {" ", "\n"}
         THEN SplitAcc(Tail(s), <<>>, IF cur = <<>> THEN acc ELSE Append(acc, cur))
         ELSE SplitAcc(Tail(s), Append(cur, Head(s)), acc)

\* str.split(): the whitespace-delimited words of s
split(s) == SplitAcc(s, <<>>, <<>>)

RECURSIVE join(_)
\* ' '.join(words)
join(words) ==
    IF words = <<>> THEN <<>>
    ELSE IF Len(words) = 1 THEN words[1]
    ELSE words[1] \o <<" ">> \o join(Tail(words))

\* s.endswith(p)

endswith(s, p) == Len(p) <= Len(s) /\ SubSeq(s, Len(s) - Len(p) + 1, Len(s)) = p

\* s.find(p, start): 0-based position of the first occurrence of p in s at or
\* after start, or -1
findFrom(s, p, start) ==
    LET hits == {i \in start..(Len(s) - Len(p)) : SubSeq(s, i + 1, i + Len(p)) = p}
    IN  IF hits = {} THEN -1 ELSE CHOOSE i \in hits : \A j \in hits : i <= j

find(s, p) == findFrom(s, p, 0)

\* s.rfind(p, 0, end): position of the last occurrence of p inside s[0:end]
rfind(s, p, end) ==
    LET hits == {i \in 0..(end - Len(p)) : SubSeq(s, i + 1, i + Len(p)) = p}
    IN  IF hits = {} THEN -1 ELSE CHOOSE i \in hits : \A j \in hits : j <= i

\* seq[-n:] and seq[:n] of Python
lastN(seq, n) == IF Len(seq) <= n THEN seq ELSE SubSeq(seq, Len(seq) - n + 1, Len(seq))

firstN(seq, n) == IF Len(seq) <= n THEN seq ELSE SubSeq(seq, 1, n)

Max2(a, b) == IF a >= b THEN a ELSE b

Min2(a, b) == IF a <= b THEN a ELSE b

RECURSIVE replace(_, _, _)
\* s.replace(old, new) for a non-empty old: every non-overlapping occurrence,
\* from the left
replace(s, old, new) ==
    LET p == find(s, old)
    IN  IF old = <<>> \/ p = -1 THEN s
        ELSE SubSeq(s, 1, p) \o new
             \o replace(SubSeq(s, p + Len(old) + 1, Len(s)), old, new)

RECURSIVE StrLess(_, _)
\* s < t in Python's string order (lexicographic by code point)
StrLess(s, t) ==
    IF t = <<>> THEN FALSE
    ELSE IF s = <<>> THEN TRUE
    ELSE IF Head(s) = Head(t) THEN StrLess(Tail(s), Tail(t))
    ELSE CharOrd(Head(s)) < CharOrd(Head(t))

(***************************************************************************)
(* utilities.normalize, utilities.tokenize, utilities.get_last_part.       *)
(***************************************************************************)
\* lowercase, every non-alphanumeric character replaced by a space, runs of
\* whitespace collapsed
normalize(s) ==
    join(split(list([i \in DOMAIN s |->
        IF IsLetter(s[i]) \/ IsDigit(s[i]) THEN lower(s[i]) ELSE " "])))

tokenize(s) == split(s)

\* the last word of s whose length is >= 2; empty if there is none
get_last_part(s) ==
    LET w == split(s)
        long == {i \in DOMAIN w : Len(w[i]) >= 2}
    IN  IF long = {} THEN <<>>
        ELSE w[CHOOSE i \in long : \A j \in long : j <= i]

(***************************************************************************)
(* dictionary: the entries of the lexicons the modelled articles touch.    *)
(***************************************************************************)

months == {(<<"m","e","i">>), (<<"m","a","a","r","t">>)}

\* title words (heer, dhr, ...) looked up by Entity.get_title
titles == {(<<"d","h","r">>)}

\* stop-words excluded from windows and entity parts
unwanted == {(<<"w","a","a","r","i","n">>)}

\* role -> words and implied types
roles == [politician |-> [words |-> <<(<<"m","i","n","i","s","t","e","r">>), (<<"p","r","e","m","i","e","r">>)>>,
                          subjects |-> <<"politics">>, types |-> <<"person">>],
          religious_location |-> [words |-> <<(<<"k","e","r","k">>)>>,
                                  subjects |-> <<"religion">>,
                                  types |-> <<"location", "organisation">>]]

RoleNames == <<"politician", "religious_location">>

\* subject -> words, as the module is loaded
dictionary_subjects ==
    [politics |-> << <<"r","e","g","e","r","i","n","g">> >>,
     religion |-> << <<"g","e","l","o","o","f">> >>]

SubjectNames == <<"politics", "religion">>

quote_chars == {"\"", "'"}

WINDOW_SIZE == 20

(***************************************************************************)
(* Entity: one mention of an article.                                      *)
(***************************************************************************)
get_position(phrase, document, doc_pos) ==
    LET start_pos == findFrom(document, phrase, doc_pos)
        end_pos == start_pos + Len(phrase)
    IN  IF start_pos >= 0 /\ end_pos <= Len(document)
        THEN <<start_pos, end_pos>>
        ELSE <<-1, -1>>

\* <<window_left, window_right>>
get_window(document, start_pos, end_pos, size) ==
    IF start_pos >= 0 /\ end_pos <= Len(document)
    THEN LET left_pos == Max2(rfind(document, <<" ">>, start_pos),
                              rfind(document, <<"\n">>, start_pos))
             right_space_pos == findFrom(document, <<" ">>, end_pos)
             right_pos == Min2(right_space_pos, findFrom(document, <<"\n">>, end_pos))
             left_bow == IF left_pos > 0
                         THEN tokenize(SubSeq(document, 1, left_pos))
                         ELSE <<>>
             right_bow == IF right_pos > 0
                          THEN tokenize(SubSeq(document, right_space_pos + 1,
                                               Len(document)))
                          ELSE <<>>
         IN  <<lastN(left_bow, size), firstN(right_bow, size)>>
    ELSE << <<>>, <<>>>>

get_quotes(ocr, start_pos, end_pos) ==
    Cardinality({k \in 1..4 :
        LET pos == <<start_pos - 1, start_pos, end_pos - 1, end_pos>>[k]
        IN  pos >= 0 /\ pos < Len(ocr) /\ ocr[pos + 1] \in quote_chars})

\* the first of the words that lies in S, or the empty word
RECURSIVE FirstWord(_, _)
FirstWord(words, S) ==
    IF words = <<>> THEN <<>>
    ELSE IF Head(words) \in S THEN Head(words)
    ELSE FirstWord(Tail(words), S)

\* Entity.get_title raises IndexError on an empty norm (norm.split()[0])
EntityRaises(text) == split(normalize(text)) = <<>>

\* <<title, title_form>>
get_title(norm, window_left) ==
    LET words == <<split(norm)[1]>> \o
                 (IF window_left # <<>>
                  THEN <<normalize(window_left[Len(window_left)])>> ELSE <<>>)
        w == FirstWord(words, titles)
    IN  <<w # <<>>, w>>

AllRoleWords == UNION {Range(roles[r].words) : r \in Range(RoleNames)}

\* the inner loop of get_role: the first role that lists the word w
RoleOf(w) ==
    IF w = <<>> THEN <<"None", <<>>>>
    ELSE <<RoleNames[CHOOSE i \in DOMAIN RoleNames :
                /\ w \in Range(roles[RoleNames[i]].words)
                /\ \A j \in 1..(i - 1) :
                      w \notin Range(roles[RoleNames[j]].words)], w>>

\* <<role, role_form>>
get_role(norm, window_left, window_right, ocr, end_pos) ==
    RoleOf(FirstWord(
        <<split(norm)[1]>> \o
        (IF window_left # <<>>
         THEN <<normalize(window_left[Len(window_left)])>> ELSE <<>>) \o
        (IF window_right # <<>> /\ ocr[end_pos + 1] = ","
         THEN <<normalize(window_right[1])>> ELSE <<>>),
        AllRoleWords))

strip_titles(norm, title, title_form, role, role_form) ==
    IF title /\ split(norm)[1] = title_form THEN join(Tail(split(norm)))
    ELSE IF role # "None" /\ split(norm)[1] = role_form THEN join(Tail(split(norm)))
    ELSE norm

isdigit(w) == w # <<>> /\ \A i \in DOMAIN w : IsDigit(w[i])

is_date(norm) ==
    /\ \E i \in DOMAIN split(norm) : split(norm)[i] \in months
    /\ \E i \in DOMAIN split(norm) : isdigit(split(norm)[i])

is_valid(norm, stripped, last_part) ==
    /\ \E i \in DOMAIN split(stripped) : Len(split(stripped)[i]) >= 2
    /\ last_part # <<>>
    /\ ~is_date(norm)

get_alt_type(title, role, window_left) ==
    IF title THEN "person"
    ELSE IF role # "None" /\ Len(roles[role].types) = 1 THEN roles[role].types[1]
    ELSE IF window_left # <<>>
            /\ normalize(window_left[Len(window_left)]) \in {(<<"i","n">>), (<<"t","e">>), (<<"u","i","t">>)}
         THEN "location"
    ELSE "None"

\* the fields Entity.__init__ sets once it has the norm, the position pos,
\* the window win, the title t and the role r of the mention
EntityAt(text, tpta_type, ocr, norm, pos, win, t, r) ==
    LET stripped == strip_titles(norm, t[1], t[2], r[1], r[2])
    IN  [text |-> text, tpta_type |-> tpta_type, norm |-> norm,
         start_pos |-> pos[1], end_pos |-> pos[2],
         window_left |-> win[1], window_right |-> win[2],
         quotes |-> get_quotes(ocr, pos[1], pos[2]),
         title |-> t[1], title_form |-> t[2], role |-> r[1], role_form |-> r[2],
         stripped |-> stripped, last_part |-> get_last_part(stripped),
         valid |-> is_valid(norm, stripped, get_last_part(stripped)),
         alt_type |-> get_alt_type(t[1], r[1], win[1])]

\* Entity.__init__ for a text whose norm is not empty
Entity(text, tpta_type, ocr, doc_pos) ==
    LET pos == get_position(text, ocr, doc_pos)
        win == get_window(ocr, pos[1], pos[2], WINDOW_SIZE)
    IN  EntityAt(text, tpta_type, ocr, normalize(text), pos, win,
                 get_title(normalize(text), win[1]),
                 get_role(normalize(text), win[1], win[2], ocr, pos[2]))

(***************************************************************************)
(* Entity.substitute: the spelling rules, with Python's re semantics for   *)
(* the patterns (^|\s)([a-zA-Z]{2,})<suffix>($|\s).                        *)
(***************************************************************************)
RECURSIVE RunEnd(_, _)
\* end (exclusive, 0-based) of the run of letters of s that starts at q
RunEnd(s, q) == IF q < Len(s) /\ IsLetter(s[q + 1]) THEN RunEnd(s, q + 1) ELSE q

\* a rule is a set of <<suffix, replacement>> pairs
RULE_SCH == {<<(<<"s","c","h">>), (<<"s">>)>>, <<(<<"s","c","h","e">>), (<<"s","e">>)>>}

RULE_V == {<<(<<"v">>), (<<"w">>)>>}

RULE_W == {<<(<<"w">>), (<<"v">>)>>}

\* where group 2 starts when the pattern is tried at position p: at p itself
\* for ^ (p = 0), after the whitespace character at p otherwise
GroupStart(s, p) == IF p = 0 /\ ~(Len(s) > 0 /\ s[1] = " ") THEN 0 ELSE p + 1

\* the pairs of the rule with which the pattern matches at position p
MatchAt(s, p, rule) ==
    LET q == GroupStart(s, p)
        e == RunEnd(s, q)
    IN  {pr \in rule :
            /\ p < Len(s) \/ (p = 0 /\ q = 0)
            /\ q = 0 \/ s[p + 1] = " "
            /\ e = Len(s) \/ s[e + 1] = " "
            /\ e - q >= Len(pr[1]) + 2
            /\ SubSeq(s, e - Len(pr[1]) + 1, e) = pr[1]}

\* positions >= pos where the pattern matches
MatchStarts(s, pos, rule) == {p \in pos..Len(s) : MatchAt(s, p, rule) # {}}

\* re.search(pattern, s)
re_search(s, rule) == MatchStarts(s, 0, rule) # {}

RECURSIVE ReSubFrom(_, _, _), ReSubAt(_, _, _, _)
\* re.sub on s[pos:]: leftmost non-overlapping matches; a match consumes the
\* whitespace on both of its sides
ReSubFrom(s, pos, rule) ==
    LET starts == MatchStarts(s, pos, rule)
    IN  IF starts = {} THEN SubSeq(s, pos + 1, Len(s))
        ELSE ReSubAt(s, pos, rule, CHOOSE x \in starts : \A y \in starts : x <= y)

\* the match at position p is replaced, the scan goes on after it
ReSubAt(s, pos, rule, p) ==
    LET e == RunEnd(s, GroupStart(s, p))
        pr == CHOOSE x \in MatchAt(s, p, rule) : TRUE
        nxt == IF e < Len(s) THEN e + 1 ELSE e
    IN  SubSeq(s, pos + 1, e - Len(pr[1])) \o pr[2]
        \o SubSeq(s, e + 1, nxt) \o ReSubFrom(s, nxt, rule)

re_sub(s, rule) == ReSubFrom(s, 0, rule)

\* the list subs of Entity.substitute
Subs(stripped) ==
    (IF find(stripped, <<"y">>) > -1
     THEN <<replace(stripped, <<"y">>, <<"i","j">>)>> ELSE <<>>) \o
    (IF endswith(stripped, <<"s">>)
     THEN <<SubSeq(stripped, 1, Len(stripped) - 1)>> ELSE <<>>) \o
    (IF re_search(stripped, RULE_SCH) THEN <<re_sub(stripped, RULE_SCH)>> ELSE <<>>) \o
    (IF re_search(stripped, RULE_V) THEN <<re_sub(stripped, RULE_V)>> ELSE <<>>) \o
    (IF re_search(stripped, RULE_W) THEN <<re_sub(stripped, RULE_W)>> ELSE <<>>)

\* Substituted, replacing also when several rules apply
SubstitutedAny(e, subs) ==
    IF Len(subs) >= 1
    THEN <<TRUE, [e EXCEPT !.norm = replace(e.norm, e.stripped, subs[1]),
                           !.stripped = subs[1],
                           !.last_part = get_last_part(subs[1])]>>
    ELSE <<FALSE, e>>

\* the end of Entity.substitute, given the list subs
Substituted(e, subs) ==
    IF Len(subs) = 1
    THEN <<TRUE, [e EXCEPT !.norm = replace(e.norm, e.stripped, subs[1]),
                           !.stripped = subs[1],
                           !.last_part = get_last_part(subs[1])]>>
    ELSE <<FALSE, e>>

\* Entity.substitute: <<returned value, the entity afterwards>>
substitute(e) == Substituted(e, Subs(e.stripped))

(***************************************************************************)
(* EntityLinker.get_clusters and EntityLinker.cluster.  A cluster is the   *)
(* list of its mentions; a mention is named by its position in             *)
(* context.entities (object identity), ents is the list of entity records. *)
(***************************************************************************)
words(e) == split(e.norm)

\* a sorts before b: more words first, then the greater norm first
SortsBefore(ents, a, b) ==
    \/ Len(words(ents[a])) > Len(words(ents[b]))
    \/ /\ Len(words(ents[a])) = Len(words(ents[b]))
       /\ StrLess(ents[b].norm, ents[a].norm)

\* stable insertion of x into a list ordered by SortsBefore
InsertSorted(ents, sorted, x) ==
    LET later == {i \in DOMAIN sorted : SortsBefore(ents, x, sorted[i])}
        k == IF later = {} THEN Len(sorted) + 1
             ELSE CHOOSE i \in later : \A j \in later : i <= j
    IN  SubSeq(sorted, 1, k - 1) \o <<x>> \o SubSeq(sorted, k, Len(sorted))

RECURSIVE SortEntities(_, _, _)
\* the two stable sorts of get_clusters (reverse=True keeps equal keys in
\* their original order)
SortEntities(ents, idxs, sorted) ==
    IF idxs = <<>> THEN sorted
    ELSE SortEntities(ents, Tail(idxs), InsertSorted(ents, sorted, Head(idxs)))

\* entity x matches cluster c exactly: same text, or same non-empty norm
ExactMatch(ents, x, c) ==
    \E k \in DOMAIN c :
        \/ ents[x].text = ents[c[k]].text
        \/ /\ Len(ents[x].norm) > 0 /\ Len(ents[c[k]].norm) > 0
           /\ ents[x].norm = ents[c[k]].norm

\* entity x matches cluster c partially: last-part extension or first-name
\* attachment
PartialMatch(ents, x, c) ==
    \E k \in DOMAIN c :
        LET en == ents[x]
            e == ents[c[k]]
            ew == split(e.norm)
            xw == split(en.norm)
        IN  /\ Len(en.norm) > 0 /\ Len(e.norm) > 0
            /\ IF xw[Len(xw)] = ew[Len(ew)]
               THEN /\ endswith(e.norm, en.norm)
                    /\ Len(ew) > Len(xw)
               ELSE /\ xw[1] = ew[1]
                    /\ Len(xw) = 1
                    /\ Len(ew) > Len(xw)
                    /\ e.tpta_type = "person"
                    /\ en.tpta_type = "person"

\* cluster, but joining the first of exactly two partially matching clusters
clusterAmbiguous(ents, x, clusters) ==
    LET exact == {i \in DOMAIN clusters : ExactMatch(ents, x, clusters[i])}
        candidates == {i \in DOMAIN clusters : PartialMatch(ents, x, clusters[i])}
    IN  IF exact # {}
        THEN LET i == CHOOSE a \in exact : \A b \in exact : a <= b
             IN  [clusters EXCEPT ![i] = Append(@, x)]
        ELSE IF Cardinality(candidates) = 2
        THEN LET i == CHOOSE a \in candidates : \A b \in candidates : a <= b
             IN  [clusters EXCEPT ![i] = Append(@, x)]
        ELSE Append(clusters, <<x>>)

\* EntityLinker.cluster: add entity x to an existing cluster or open a new one
cluster(ents, x, clusters) ==
    LET exact == {i \in DOMAIN clusters : ExactMatch(ents, x, clusters[i])}
        candidates == {i \in DOMAIN clusters : PartialMatch(ents, x, clusters[i])}
    IN  IF exact # {}
        THEN LET i == CHOOSE a \in exact : \A b \in exact : a <= b
             IN  [clusters EXCEPT ![i] = Append(@, x)]
        ELSE IF Cardinality(candidates) = 1
        THEN LET i == CHOOSE a \in candidates : TRUE
             IN  [clusters EXCEPT ![i] = Append(@, x)]
        ELSE Append(clusters, <<x>>)

RECURSIVE ClusterAll(_, _, _)
ClusterAll(ents, sorted, clusters) ==
    IF sorted = <<>> THEN clusters
    ELSE ClusterAll(ents, Tail(sorted), cluster(ents, Head(sorted), clusters))

\* EntityLinker.get_clusters on the mentions idxs
get_clusters(ents, idxs) == ClusterAll(ents, SortEntities(ents, idxs, <<>>), <<>>)

(***************************************************************************)
(* The external collaborators: the documents of the search index, the      *)
(* responses of the index, of the SRU service and of the word-vector       *)
(* service, and the probabilities of the classifier.                       *)
(***************************************************************************)
\* row budget of the retrieval (configuration)
SOLR_ROWS == 2

\* probabilities are counted in halves of MIN_PROB
MIN_PROB == 2

\* what the classifier can predict for a candidate
Probs == {1, 2}


Documents == <<
    [id |-> 1, label |-> "Jan Vos", pref_label |-> (<<"j","a","n"," ","v","o","s">>), alt_label |-> <<>>,
     last_part |-> (<<"v","o","s">>), birth_year |-> 1880, death_year |-> 0,
     schema_type |-> <<"Person">>, dbo_type |-> <<>>, lang |-> "nl", ambig |-> 0,
     inlinks_newspapers |-> 5, abstract |-> (<<"p","o","l","i","t","i","c","u","s"," ","u","i","t"," ","n","e","d","e","r","l","a","n","d">>), keyword |-> <<>>,
     uri_wd |-> "Q1"],
    [id |-> 2, label |-> "Vos (dorp)", pref_label |-> (<<"v","o","s">>), alt_label |-> <<>>,
     last_part |-> <<>>, birth_year |-> 0, death_year |-> 0,
     schema_type |-> <<>>, dbo_type |-> <<"Place">>, lang |-> "en", ambig |-> 1,
     inlinks_newspapers |-> 0, abstract |-> (<<"d","o","r","p">>), keyword |-> <<>>,
     uri_wd |-> "None"],
    [id |-> 3, label |-> "Kat", pref_label |-> (<<"k","a","t">>), alt_label |-> <<>>,
     last_part |-> <<>>, birth_year |-> 0, death_year |-> 0,
     schema_type |-> <<>>, dbo_type |-> <<>>, lang |-> "nl", ambig |-> 0,
     inlinks_newspapers |-> 0, abstract |-> (<<"d","o","r","p">>), keyword |-> <<>>,
     uri_wd |-> "None"] >>

\* the answer of a query the index fails on
SOLR_FAILS == <<0>>

\* what one query can return (lists of document ids, best first)
SolrResponses == {<<>>, <<1>>, <<2, 1>>, <<3>>}

\* what the SRU metadata request can yield: a publication year, no date
\* element (None, written 0: the code only tests its truth value), or a
\* failure (non-200 status, malformed XML)
PublYearOutcomes == {<<"ok", 1920>>, <<"ok", 1850>>, <<"ok", 0>>, <<"fail", 0>>}

\* the word-vector service: vectors, an empty list, or a non-200 status
W2vOutcomes == {"ok", "empty", "fail"}

\* the SRU co-occurrence count: a number of records, or a failed request
SruCountOutcomes == {<<"ok", 8>>, <<"fail", 0>>}

(***************************************************************************)
(* Description: rule features (CandidateList.filter).  A feature that the  *)
(* code sets to tanh(0.25 * n) holds n here; match_txt_date holds four     *)
(* times its value (-4, 0, 2, 3, 4 for -1, 0, 0.5, 0.75, 1).               *)
(***************************************************************************)
\* Levenshtein.distance capped at 2
distance(a, b) ==
    IF a = b THEN 0
    ELSE IF Len(a) = Len(b)
    THEN IF Cardinality({i \in DOMAIN a : a[i] # b[i]}) = 1 THEN 1 ELSE 2
    ELSE LET long == IF Len(a) > Len(b) THEN a ELSE b
             short == IF Len(a) > Len(b) THEN b ELSE a
         IN  IF /\ Len(long) = Len(short) + 1
                /\ \E i \in DOMAIN long :
                      SubSeq(long, 1, i - 1) \o SubSeq(long, i + 1, Len(long)) = short
             THEN 1 ELSE 2

\* list.index(x), 0-based
index(seq, x) == (CHOOSE i \in DOMAIN seq :
                    seq[i] = x /\ \A j \in 1..(i - 1) : seq[j] # x) - 1

\* list.remove(x): drops the first occurrence
remove(seq, x) ==
    LET i == index(seq, x) + 1
    IN  SubSeq(seq, 1, i - 1) \o SubSeq(seq, i + 1, Len(seq))

\* the value set_date_match returns and leaves in match_txt_date (a missing
\* year, None in the code, is written 0: the code only tests its truth value)
set_date_match(publ_year, document) ==
    IF publ_year = 0 THEN 0
    ELSE IF document.birth_year = 0 THEN 0
    ELSE LET birth_year == document.birth_year
             death_year == IF document.death_year = 0
                           THEN birth_year + 80 ELSE document.death_year
         IN  IF publ_year < birth_year THEN -4
             ELSE IF publ_year < birth_year + 20 THEN 2
             ELSE IF publ_year < death_year + 20 THEN 4
             ELSE 3

\* how one label matches the norm ne: "exact", "end", "part" or "none"
LabelMatch(label, ne) ==
    IF Range(split(ne)) \subseteq Range(split(label))
    THEN IF label = ne THEN "exact"
         ELSE IF endswith(label, ne) THEN "end"
         ELSE IF find(label, ne) > -1 THEN "part"
         ELSE "none"
    ELSE "none"

\* the labels among seq (in order) that match in a given way
SelectLabels(seq, ne, how) == SelectSeq(seq, LAMBDA l : LabelMatch(l, ne) = how)

\* one pass of the loop over the preceding parts in set_last_part_match:
\* the new target_pos, or -1 for a conflict
AlignStep(part, target, target_pos) ==
    LET slice == SubSeq(target, target_pos + 1, Len(target) - 1)
        initials == list([i \in DOMAIN slice |-> slice[i][1]])
        near == {i \in DOMAIN slice : distance(slice[i], part) = 1}
    IN  IF target_pos < Len(target) - 1
        THEN IF Len(part) > 1 /\ part \in Range(slice)
             THEN index(target, part) + 1
             ELSE IF Len(part) > 1 /\ near # {}
             THEN index(target, slice[CHOOSE i \in near : \A j \in near : i <= j]) + 1
             ELSE IF Len(part) <= 1 /\ part[1] \in Range(initials)
             THEN index(initials, part[1]) + 1
             ELSE -1
        ELSE -1

RECURSIVE Align(_, _, _)
\* the preceding-part alignment of set_last_part_match: TRUE iff no conflict
Align(source, target, target_pos) ==
    IF source = <<>> THEN TRUE
    ELSE IF AlignStep(Head(source), target, target_pos) = -1 THEN FALSE
    ELSE Align(Tail(source), target, AlignStep(Head(source), target, target_pos))

\* label l is accepted by set_last_part_match for the stripped head ne
LastPartAccepts(ne, l) ==
    LET source == split(ne)
        target == split(l)
    IN  /\ Len(source) <= Len(target)
        /\ distance(source[Len(source)], target[Len(target)]) <= 1
        /\ Align(SubSeq(source, 1, Len(source) - 1), target, 0)

RECURSIVE LastPartLoop(_, _, _)
\* the loop of set_last_part_match over a copy of non_matching:
\* <<last_part_match, non_matching>>
LastPartLoop(ne, labels, acc) ==
    IF labels = <<>> THEN acc
    ELSE LastPartLoop(ne, Tail(labels),
            IF LastPartAccepts(ne, Head(labels))
            THEN <<acc[1] + 1, remove(acc[2], Head(labels))>>
            ELSE acc)

RECURSIVE FirstPartLoop(_, _, _)
\* the loop of set_first_part_match: <<match_str_first_part, non_matching>>
FirstPartLoop(ocr_norm, labels, acc) ==
    IF labels = <<>> THEN acc
    ELSE FirstPartLoop(ocr_norm, Tail(labels),
            IF find(ocr_norm, join(Tail(split(Head(labels))))) > -1
            THEN <<1, remove(acc[2], Head(labels))>>
            ELSE acc)

\* set_name_conflict without the last-part match among the features summed
set_name_conflictNoLastPart(f) ==
    [f EXCEPT !.match_str_conflict =
        IF /\ f.match_str_pref_label_exact + f.match_str_pref_label_end
              + f.match_str_first_part = 0
           /\ f.match_str_alt_label_exact = 0
           /\ f.match_str_alt_label_end = 0
        THEN 1 ELSE 0]

\* set_name_conflict: the sum of the six features is 0.  The three tanh
\* terms are >= 0 and their sum is never 1 or 2 for counts below 77.
set_name_conflict(f) ==
    [f EXCEPT !.match_str_conflict =
        IF /\ f.match_str_pref_label_exact + f.match_str_pref_label_end
              + f.match_str_first_part = 0
           /\ f.match_str_alt_label_exact = 0
           /\ f.match_str_alt_label_end = 0
           /\ f.match_str_last_part = 0
        THEN 1 ELSE 0]

\* the feature values a Description starts with
InitialFeatures ==
    [match_txt_date |-> 0, match_str_pref_label_exact |-> 0,
     match_str_pref_label_end |-> 0, match_str_pref_label |-> 0,
     match_str_alt_label_exact |-> 0, match_str_alt_label_end |-> 0,
     match_str_alt_label |-> 0, match_str_last_part |-> 0,
     match_str_first_part |-> 0, match_str_non_matching |-> 0,
     match_str_conflict |-> 0, match_txt_vec_max |-> 0,
     match_txt_entities_newspapers |-> <<0, 1>>, match_txt_entity_vec_max |-> 0]

\* set_last_part_match on the labels of non_matching:
\* <<match_str_last_part, non_matching>>
set_last_part_match(stripped, labels) ==
    IF labels = <<>> THEN <<0, labels>>
    ELSE LastPartLoop(stripped, labels, <<0, labels>>)

\* set_first_part_match on the labels of non_matching:
\* <<match_str_first_part, non_matching>>
set_first_part_match(doc, ne, ocr_norm, non_matching) ==
    LET labels == SelectSeq(non_matching,
                            LAMBDA l : Len(split(l)) > 1 /\ split(l)[1] = ne)
    IN  IF Len(split(ne)) > 1 \/ doc.last_part = <<>> \/ labels = <<>>
        THEN <<0, non_matching>>
        ELSE FirstPartLoop(ocr_norm, labels, <<-1, non_matching>>)

\* Description.set_rule_features for document doc and head mention head
set_rule_features(f, doc, head, publ_year, ocr_norm) ==
    LET f1 == [f EXCEPT !.match_txt_date = set_date_match(publ_year, doc)]
        ne == head.norm
        pm == LabelMatch(doc.pref_label, ne)
        lp == set_last_part_match(head.stripped,
                  (IF pm = "none" THEN <<doc.pref_label>> ELSE <<>>)
                  \o SelectLabels(doc.alt_label, ne, "none"))
        fp == set_first_part_match(doc, ne, ocr_norm, lp[2])
    IN  IF f1.match_txt_date > -4
        THEN set_name_conflict(
               [f1 EXCEPT
                 !.match_str_pref_label_exact = IF pm = "exact" THEN 1 ELSE 0,
                 !.match_str_pref_label_end = IF pm = "end" THEN 1 ELSE 0,
                 !.match_str_pref_label = IF pm = "part" THEN 1 ELSE 0,
                 !.match_str_alt_label_exact =
                     Len(SelectLabels(doc.alt_label, ne, "exact")),
                 !.match_str_alt_label_end =
                     Len(SelectLabels(doc.alt_label, ne, "end")),
                 !.match_str_alt_label =
                     Len(SelectLabels(doc.alt_label, ne, "part")),
                 !.match_str_last_part = lp[1],
                 !.match_str_first_part = fp[1],
                 !.match_str_non_matching = Len(fp[2])])
        ELSE f1

\* the filter letting a date conflict through
PassesFilterAnyDate(f) == f.match_str_conflict = 0 /\ f.match_txt_date >= -4

\* the hard filter of CandidateList.filter
PassesFilter(f) == f.match_str_conflict = 0 /\ f.match_txt_date > -4

(***************************************************************************)
(* Cluster: the derived fields the probability features ask for.           *)
(***************************************************************************)
\* Cluster.get_entity_parts
get_entity_parts(ents, c) ==
    UNION {Range(split(ents[c[k]].stripped)) : k \in DOMAIN c}

\* Cluster.get_window (as a set: only its emptiness and its members matter)
get_cluster_window(ents, c) ==
    LET raw == UNION {
            UNION {Range(split(normalize(w))) :
                     w \in Range(ents[c[k]].window_left \o ents[c[k]].window_right)}
            \cup (IF ents[c[k]].title THEN {ents[c[k]].title_form} ELSE {})
            \cup (IF ents[c[k]].role # "None" THEN {ents[c[k]].role_form} ELSE {})
            : k \in DOMAIN c}
        parts == get_entity_parts(ents, c)
    IN  {w \in raw : Len(w) > 4 /\ w \notin parts /\ w \notin unwanted}

\* Cluster.get_context_entity_parts
get_context_entity_parts(ents, c) ==
    LET parts == get_entity_parts(ents, c)
    IN  UNION {{w \in Range(split(ents[i].norm)) :
                   /\ w \notin parts
                   /\ w \notin unwanted
                   /\ Len(w) > 4
                   /\ ents[i].valid} : i \in DOMAIN ents}

\* Description.tokenize_abstract
abstract_bow(doc) ==
    UNION {Range(split(normalize(t))) : t \in Range(tokenize(doc.abstract))}

(***************************************************************************)
(* Description: the probability features that need an external service.    *)
(* A feature computed from word vectors holds 1 (some value obtained from  *)
(* the service); match_txt_entities_newspapers holds the pair              *)
(* <<number of records, newspaper inlinks>> of its quotient.               *)
(***************************************************************************)
\* the feature names the classifier advertises (model.features)
features == {"match_txt_date", "match_str_conflict", "match_txt_subject",
             "match_txt_vec_max", "match_txt_vec_mean",
             "match_txt_entities_newspapers",
             "match_txt_entity_vec_max", "match_txt_entity_vec_mean"}

RECURSIVE ExtendWords(_, _, _, _)
\* the loop over dictionary.roles: words += roles[role]['words'] for every
\* role of the subject whose subjects are disjoint from the set given;
\* word_list is the list object of dictionary.subjects, extended in place
ExtendWords(word_list, subject, role_names, disjoint_from) ==
    IF role_names = <<>> THEN word_list
    ELSE ExtendWords(
            IF /\ subject \in Range(roles[Head(role_names)].subjects)
               /\ Range(roles[Head(role_names)].subjects) \cap disjoint_from = {}
            THEN word_list \o roles[Head(role_names)].words ELSE word_list,
            subject, Tail(role_names), disjoint_from)

RECURSIVE SubjectsLoop(_, _, _, _, _)
\* the loop over subjects of get_subjects and of set_subject_match:
\* <<dictionary.subjects afterwards, the subjects whose words meet bow>>
SubjectsLoop(dict, names, bow, disjoint_from, acc) ==
    IF names = <<>> THEN <<dict, acc>>
    ELSE SubjectsLoop(
            [dict EXCEPT ![Head(names)] =
                ExtendWords(@, Head(names), RoleNames, disjoint_from)],
            Tail(names), bow, disjoint_from,
            IF Range(ExtendWords(dict[Head(names)], Head(names), RoleNames,
                                 disjoint_from)) \cap bow # {}
            THEN Append(acc, Head(names)) ELSE acc)

\* Context.get_subjects: <<dictionary.subjects afterwards, context.subjects>>
get_subjects(dict, ocr) ==
    SubjectsLoop(dict, SubjectNames,
                 {normalize(w) : w \in Range(tokenize(ocr))}, {}, <<>>)

\* Description.set_subject_match once context.subjects is the non-empty list
\* article_subjects: <<dictionary.subjects afterwards, subject_match>>
set_subject_match(dict, article_subjects, bow) ==
    LET matched == SubjectsLoop(dict, article_subjects, bow, {}, <<>>)
    IN  IF matched[2] # <<>> THEN <<matched[1], Len(matched[2])>>
        ELSE <<SubjectsLoop(matched[1],
                            SelectSeq(SubjectNames,
                                      LAMBDA x : x \notin Range(article_subjects)),
                            bow, Range(article_subjects), <<>>)[1], 0>>

RECURSIVE SubjectMatches(_, _, _, _)
\* set_subject_match for the candidates docs in turn, cache being
\* context.subjects (<<>> while the attribute is unset):
\* <<dictionary.subjects afterwards, context.subjects afterwards>>
SubjectMatches(dict, cache, ocr, docs) ==
    IF docs = <<>> \/ "match_txt_subject" \notin features THEN <<dict, cache>>
    ELSE IF cache = <<>>
    THEN SubjectMatches(get_subjects(dict, ocr)[1], <<get_subjects(dict, ocr)[2]>>,
                        ocr, docs)
    ELSE SubjectMatches(
            IF cache[1] = <<>> THEN dict
            ELSE set_subject_match(dict, cache[1],
                                   abstract_bow(Documents[Head(docs)]))[1],
            cache, ocr, Tail(docs))

\* set_vector_match reaches get_vectors
NeedsVectors(ents, c, doc) ==
    /\ "match_txt_vec_max" \in features \/ "match_txt_vec_mean" \in features
    /\ doc.lang = "nl"
    /\ get_cluster_window(ents, c) # {}
    /\ LET parts == get_entity_parts(ents, c)
       IN  {w \in abstract_bow(doc) \cup Range(doc.keyword) :
               /\ Len(w) > 4
               /\ w \notin parts
               /\ w \notin unwanted} # {}

\* set_entity_vector_match reaches get_vectors
NeedsEntityVectors(ents, c, doc) ==
    /\ "match_txt_entity_vec_max" \in features
       \/ "match_txt_entity_vec_mean" \in features
    /\ doc.uri_wd # "None"
    /\ get_context_entity_parts(ents, c) # {}

\* set_entity_match_newspapers issues its SRU request
NeedsCooccurrence(ents, c, doc, f) ==
    /\ "match_txt_entities_newspapers" \in features
    /\ doc.last_part # <<>>
    /\ doc.ambig # 1
    /\ doc.inlinks_newspapers # 0
    /\ f.match_str_pref_label_exact = 0
    /\ \/ f.match_str_pref_label_end # 0
       \/ f.match_str_pref_label # 0
       \/ f.match_str_last_part # 0
    /\ \E i \in DOMAIN ents :
          /\ find(ents[i].norm, ents[c[1]].norm) = -1
          /\ find(ents[i].norm, doc.pref_label) = -1

\* Description.get_vectors raises on a status other than 200
get_vectors_raises(w2v) == w2v = "fail"

\* Description.set_prob_features, given the answers of the services
set_prob_features(f, ents, c, doc, w2v, sru) ==
    [f EXCEPT
       !.match_txt_vec_max =
           IF NeedsVectors(ents, c, doc) /\ w2v = "ok" THEN 1 ELSE @,
       !.match_txt_entities_newspapers =
           IF NeedsCooccurrence(ents, c, doc, f) /\ sru[1] = "ok"
           THEN <<sru[2], doc.inlinks_newspapers>> ELSE @,
       !.match_txt_entity_vec_max =
           IF NeedsEntityVectors(ents, c, doc) /\ w2v = "ok" THEN 1 ELSE @]

(***************************************************************************)
(* Result.                                                                 *)
(***************************************************************************)
\* Result.__init__ with the threshold test prob > MIN_PROB
ResultAbove(reason, prob, description) ==
    LET has == description # <<>>
        linked == has /\ prob > MIN_PROB
    IN  [reason |-> reason, prob |-> prob,
         description |-> IF has THEN description[1].document ELSE 0,
         link |-> IF linked THEN Documents[description[1].document].id ELSE 0,
         label |-> IF linked THEN Documents[description[1].document].label ELSE "None"]

\* Result.__init__; description is a Description or the empty sequence
Result(reason, prob, description) ==
    LET has == description # <<>>
        linked == has /\ prob >= MIN_PROB
    IN  [reason |-> reason, prob |-> prob,
         description |-> IF has THEN description[1].document ELSE 0,
         link |-> IF linked THEN Documents[description[1].document].id ELSE 0,
         label |-> IF linked THEN Documents[description[1].document].label ELSE "None"]

\* Result.get_dict(features=False, candidates=False)
get_dict(result) ==
    ("reason" :> result.reason)
    @@ (IF result.prob # 0 THEN ("prob" :> result.prob) ELSE <<>>)
    @@ (IF result.link # 0 THEN ("link" :> result.link) ELSE <<>>)
    @@ (IF result.label # "None" THEN ("label" :> result.label) ELSE <<>>)

(***************************************************************************)
(* The articles and requests of the model.                                 *)
(***************************************************************************)
T_Vos == <<"V","o","s">>
T_dashes == <<"-","-">>

\* the tagged spans the NER service can return: <<text, tag>>
MentionKinds == {<<<<"m","i","n","i","s","t","e","r"," ","V","o","s">>, "person">>, <<T_Vos, "person">>,
                 <<<<"1"," ","m","e","i">>, "misc">>, <<T_dashes, "misc">>}

NerLists == UNION {[1..n -> MentionKinds] : n \in 0..MaxMentions}

\* the mention a caller can request (the empty text: no mention requested)
RequestTexts == {<<>>, T_Vos, T_dashes}

\* the OCR of the article: its mentions in reading order
Ocr(mentions) == join(list([i \in DOMAIN mentions |-> mentions[i][1]]))

RECURSIVE BuildEntities(_, _, _, _)
\* the loop of Context.get_entities over the nodes of the NER response
BuildEntities(nodes, ocr, doc_pos, acc) ==
    IF nodes = <<>> THEN acc
    ELSE LET entity == Entity(Head(nodes)[1], Head(nodes)[2], ocr, doc_pos)
         IN  BuildEntities(Tail(nodes), ocr,
                IF entity.end_pos > -1 THEN entity.end_pos ELSE doc_pos,
                Append(acc, entity))

(***************************************************************************)
(* State.                                                                  *)
(***************************************************************************)
VARIABLES
    debug,              \* EntityLinker.debug
    ner,                \* the article: what the NER service returns for the url
    ne,                 \* the requested mention text, <<>> for none
    pc,                 \* "start", "loop", "done", "raised"
    entities,           \* context.entities
    entity_to_link,     \* index of entity_to_link in entities, 0 if none
    clusters_to_link,   \* the work queue
    clusters_linked,    \* [entities, result] of every recorded cluster
    cur,                \* detail of the latest Cluster.link call (when kept)
    publ_year,          \* context.publ_year: <<>> while the attribute is unset
    response,           \* the value link returns
    last,               \* the latest completed Cluster.link call and its outcome
    subjects,           \* dictionary.subjects: process-wide, subject -> words
    context_subjects,   \* context.subjects: <<>> while the attribute is unset
    self_context,       \* the Context object the attribute self.context of the
                        \* EntityLinker refers to
    applied,            \* a function applied on its own: [fn, arg, value],
                        \* <<>> while none has been
    lazy                \* the lazily derived attributes (when followed): which
                        \* are set, how often each was computed

vars == <<debug, ner, ne, pc, entities, entity_to_link, clusters_to_link,
          clusters_linked, cur, publ_year, response, last, subjects,
          context_subjects, self_context, applied, lazy>>

NoResponse == [status |-> "none"]

\* the attributes a Context, a Cluster and a CandidateList derive on demand
ContextFields == {"publ_year", "subjects", "ocr_norm", "ocr_bow"}

ClusterFields == {"type_ratios", "window", "entity_parts", "context_entity_parts",
                  "window_vectors", "context_entity_vectors", "sum_quotes"}

CandidateListFields == {"sum_inlinks", "sum_inlinks_newspapers", "max_score"}

\* nothing derived yet: no attribute set (has), no getter run (count), no guard
\* that found its attribute set (again); clusters and calls count the Cluster
\* objects linked and the feature methods called on the latest one
NoLazy == [has |-> {}, again |-> {},
           count |-> [f \in ContextFields \cup ClusterFields
                                         \cup CandidateListFields |-> 0],
           clusters |-> 0, calls |-> 0]

\* self.context is the Context this request built (its mentions are the
\* variable entities)
OwnContext == [owner |-> "own", entities |-> <<>>]

NoLast == [n |-> 0, cluster |-> <<>>, dependencies |-> <<>>,
           result |-> Result(<<"none">>, 0, <<>>), split |-> FALSE,
           new_clusters |-> <<>>]

Init ==
    /\ debug \in BOOLEAN
    /\ ner \in NerLists
    /\ ne \in RequestTexts
    /\ pc = "start"
    /\ entities = <<>>
    /\ entity_to_link = 0
    /\ clusters_to_link = <<>>
    /\ clusters_linked = <<>>
    /\ cur = [cluster |-> <<>>, queries |-> <<>>, candidates |-> <<>>,
             filtered |-> <<>>, ranked |-> <<>>]
    /\ publ_year = <<>>
    /\ response = NoResponse
    /\ last = NoLast
    /\ subjects = dictionary_subjects
    /\ context_subjects = <<>>
    /\ self_context = OwnContext
    /\ applied = <<>>
    /\ lazy = NoLazy

\* an exception caught by the try blocks of link: re-raised in debug mode,
\* turned into an error response otherwise
CaughtAnsweringOk(message) ==
    IF debug
    THEN /\ pc' = "raised"
         /\ response' = NoResponse
    ELSE /\ pc' = "done"
         /\ response' = [status |-> "ok", linkedNEs |-> <<>>]

Caught(message) ==
    IF debug
    THEN /\ pc' = "raised"
         /\ response' = NoResponse
    ELSE /\ pc' = "done"
         /\ response' = [status |-> "error", message |-> message]

\* an exception outside every try block
Escapes ==
    /\ pc' = "raised"
    /\ response' = NoResponse

(***************************************************************************)
(* link, lines 86-116: the context, the requested mention, the clusters.   *)
(***************************************************************************)
\* Context.__init__ fails: the OCR resolver or the NER service fails
ContextFails ==
    /\ pc = "start"
    /\ Caught(<<"Error retrieving context: ", "">>)
    /\ UNCHANGED <<debug, ner, ne, entities, entity_to_link, clusters_to_link,
                   clusters_linked, cur, publ_year, last, subjects,
                   context_subjects, self_context, applied, lazy>>

\* lines 108-116: the clusters of the mentions ents go to the queue; etl is
\* the requested mention, 0 if there is none
Enqueue(ents, etl) ==
    LET clusters == get_clusters(ents, list([k \in DOMAIN ents |-> k]))
    IN  /\ entities' = ents
        /\ entity_to_link' = etl
        /\ clusters_to_link' =
              IF ne # <<>>
              THEN SelectSeq(clusters, LAMBDA c : etl \in Range(c))
              ELSE clusters
        /\ pc' = "loop"
        /\ response' = NoResponse

\* lines 95-106: the requested mention is looked up among the mentions found
\* of the article, and built if it is not among them
Requested(found) ==
    LET same == {k \in DOMAIN found : found[k].text = ne}
    IN  IF ne = <<>> THEN Enqueue(found, 0)
        ELSE IF same # {}
        THEN Enqueue(found, CHOOSE k \in same : \A j \in same : j <= k)
        ELSE IF EntityRaises(ne)
        THEN \* Entity(ne, None, self.context) raises, outside a try
             /\ Escapes
             /\ entities' = found
             /\ UNCHANGED <<entity_to_link, clusters_to_link>>
        ELSE Enqueue(Append(found, Entity(ne, "None", Ocr(ner), 0)),
                     Len(found) + 1)

Start ==
    /\ pc = "start"
    /\ IF \E k \in DOMAIN ner : EntityRaises(ner[k][1])
       THEN \* Entity.__init__ raises inside Context.__init__
            /\ Caught(<<"Error retrieving context: ", "">>)
            /\ UNCHANGED <<entities, entity_to_link, clusters_to_link>>
       ELSE Requested(BuildEntities(ner, Ocr(ner), 0, <<>>))
    /\ UNCHANGED <<debug, ner, ne, clusters_linked, cur, publ_year, last,
                   subjects, context_subjects, self_context, applied, lazy>>

(***************************************************************************)
(* link, lines 129-157: what happens to a cluster once it has a result.    *)
(***************************************************************************)
\* the members whose norm differs from the head's norm
Dependencies(ents, c) == SelectSeq(c, LAMBDA k : ents[k].norm # ents[c[1]].norm)

\* schema_type + dbo_type of the chosen candidate
ResultTypes(result) ==
    IF result.description # 0
    THEN Documents[result.description].schema_type
         \o Documents[result.description].dbo_type
    ELSE <<>>

\* the test without the check that there are dependencies
ShouldSplitAnyCluster(dependencies, result) ==
    result.description = 0 \/ "Person" \notin Range(ResultTypes(result))

\* the test that splits only a cluster without a chosen candidate
ShouldSplitUnlinked(dependencies, result) ==
    /\ dependencies # <<>>
    /\ result.description = 0

\* the cluster is broken up
ShouldSplit(dependencies, result) ==
    /\ dependencies # <<>>
    /\ result.description = 0 \/ "Person" \notin Range(ResultTypes(result))

\* NewClusters without the first of the dependencies
NewClustersLosing(ents, c, dependencies) ==
    <<SelectSeq(c, LAMBDA k : k \notin Range(dependencies))>>
    \o get_clusters(ents, Tail(dependencies))

\* the head's group, then the clusters of the dependencies
NewClusters(ents, c, dependencies) ==
    <<SelectSeq(c, LAMBDA k : k \notin Range(dependencies))>>
    \o get_clusters(ents, dependencies)

\* every new cluster goes back to the queue
RequeuedAll(new_clusters, requested, etl) == new_clusters

\* the new clusters that go back to the queue
Requeued(new_clusters, requested, etl) ==
    IF requested # <<>>
    THEN SelectSeq(new_clusters, LAMBDA c : etl \in Range(c))
    ELSE new_clusters

\* the loop body putting the new clusters before the waiting ones
FinishBehind(c, result, queue, ents) ==
    LET dependencies == Dependencies(ents, c)
        is_split == ShouldSplit(dependencies, result)
        new_clusters == IF is_split THEN NewClusters(ents, c, dependencies) ELSE <<>>
    IN  /\ clusters_to_link' = Requeued(new_clusters, ne, entity_to_link) \o queue
        /\ clusters_linked' = IF is_split THEN clusters_linked
                              ELSE Append(clusters_linked,
                                          [entities |-> c, result |-> result])
        /\ last' = [n |-> last.n + 1, cluster |-> c, dependencies |-> dependencies,
                    result |-> result, split |-> is_split,
                    new_clusters |-> new_clusters]
        /\ pc' = "loop"

\* the rest of the loop body after Cluster.link returned result for cluster c
Finish(c, result, queue, ents) ==
    LET dependencies == Dependencies(ents, c)
        is_split == ShouldSplit(dependencies, result)
        new_clusters == IF is_split THEN NewClusters(ents, c, dependencies) ELSE <<>>
    IN  /\ clusters_to_link' = queue \o Requeued(new_clusters, ne, entity_to_link)
        /\ clusters_linked' = IF is_split THEN clusters_linked
                              ELSE Append(clusters_linked,
                                          [entities |-> c, result |-> result])
        /\ last' = [n |-> last.n + 1, cluster |-> c, dependencies |-> dependencies,
                    result |-> result, split |-> is_split,
                    new_clusters |-> new_clusters]
        /\ pc' = "loop"

(***************************************************************************)
(* CandidateList.__init__: the retrieval.  rs0 and rs1 are the answers of  *)
(* the index to the four queries of iteration 0 and of iteration 1.        *)
(***************************************************************************)
Description(document, query_iteration, query_id) ==
    [document |-> document, query_iteration |-> query_iteration,
     query_id |-> query_id, prob |-> 0, features |-> InitialFeatures]

RECURSIVE AppendUnseen(_, _, _, _)
\* the loop over solr_response.results: documents not yet among the candidates
AppendUnseen(candidates, results, i, query_id) ==
    IF results = <<>> THEN candidates
    ELSE AppendUnseen(
            IF \E k \in DOMAIN candidates :
                  Documents[candidates[k].document].id = Documents[Head(results)].id
            THEN candidates
            ELSE Append(candidates, Description(Head(results), i, query_id)),
            Tail(results), i, query_id)

\* the budget check left out: the full budget is asked for every time
RowsToAskAll(candidates) == SOLR_ROWS

\* the budget check before a query: the rows to ask for, 0 to stop
RowsToAsk(candidates) ==
    IF Len(candidates) < SOLR_ROWS THEN SOLR_ROWS - Len(candidates) ELSE 0

RECURSIVE RunQueries(_, _, _, _)
\* the loop over the four queries of iteration i, from query query_id on;
\* acc = [candidates, queries (<<i, query_id, rows, answer>> of every query),
\*        failed (the index raised), fits (no answer longer than asked)]
RunQueries(acc, rs, i, query_id) ==
    IF query_id > 3 \/ acc.failed \/ RowsToAsk(acc.candidates) = 0 THEN acc
    ELSE LET rows == RowsToAsk(acc.candidates)
             asked == [acc EXCEPT !.queries =
                          Append(@, <<i, query_id, rows, rs[query_id + 1]>>)]
         IN  IF rs[query_id + 1] = SOLR_FAILS
             THEN [asked EXCEPT !.failed = TRUE]
             ELSE RunQueries(
                    [asked EXCEPT
                       !.candidates = AppendUnseen(@, rs[query_id + 1], i, query_id),
                       !.fits = @ /\ Len(rs[query_id + 1]) <= rows],
                    rs, i, query_id + 1)

\* iteration 0
FirstIteration(rs0) ==
    RunQueries([candidates |-> <<>>, queries |-> <<>>, failed |-> FALSE,
                fits |-> TRUE], rs0, 0, 0)

\* iteration 1 is run: iteration 0 found nothing and sub, the outcome of
\* substitute() for the head mention, is a substitution
SecondIteration(sub, rs0) ==
    /\ ~FirstIteration(rs0).failed
    /\ FirstIteration(rs0).candidates = <<>>
    /\ sub[1]

\* the retrieval calling substitute() on the head before it looks whether
\* iteration 0 found a candidate
RetrieveSubstituting(head, sub, rs0, rs1) ==
    IF SecondIteration(sub, rs0)
    THEN RunQueries(FirstIteration(rs0), rs1, 1, 0) @@ [head |-> sub[2]]
    ELSE FirstIteration(rs0) @@ [head |-> IF sub[1] THEN sub[2] ELSE head]

\* CandidateList.__init__ for the head mention: the two iterations; head is
\* the head mention afterwards
Retrieve(head, sub, rs0, rs1) ==
    IF SecondIteration(sub, rs0)
    THEN RunQueries(FirstIteration(rs0), rs1, 1, 0) @@ [head |-> sub[2]]
    ELSE FirstIteration(rs0) @@ [head |-> head]

(***************************************************************************)
(* Cluster.link, lines 575-591: filter, rank, choose.                      *)
(***************************************************************************)
\* set_last_part_match indexes the last word of an empty stripped head
RuleFeaturesRaise(head, doc) ==
    /\ split(head.stripped) = <<>>
    /\ \/ LabelMatch(doc.pref_label, head.norm) = "none"
       \/ SelectLabels(doc.alt_label, head.norm, "none") # <<>>

\* CandidateList.filter: the candidates with their rule features
WithRuleFeatures(candidates, head, year, ocr_norm) ==
    list([k \in DOMAIN candidates |->
        [candidates[k] EXCEPT !.features =
            set_rule_features(InitialFeatures, Documents[candidates[k].document],
                              head, year, ocr_norm)]])

filtered_candidates(candidates) ==
    SelectSeq(candidates, LAMBDA d : PassesFilter(d.features))

\* the first filtered candidate, as if the list were not sorted
first_match(candidates) == candidates[1]

\* ranked_candidates[0]: sorted() is stable, so the first of the candidates
\* with the greatest probability
best_match(candidates) ==
    candidates[CHOOSE k \in DOMAIN candidates :
        /\ \A j \in DOMAIN candidates : candidates[j].prob <= candidates[k].prob
        /\ \A j \in 1..(k - 1) : candidates[j].prob < candidates[k].prob]

\* the result Cluster.link builds from the best match
ChosenResult(best) ==
    IF best.prob >= MIN_PROB
    THEN Result(<<"Predicted link">>, best.prob, <<best>>)
    ELSE Result(<<"Probability too low for: ", Documents[best.document].label>>,
                best.prob, <<best>>)

\* what is kept of a Cluster.link call that returned
Detail(c, ret, candidates, filtered, ranked) ==
    [cluster |-> c, queries |-> ret.queries, candidates |-> candidates,
     filtered |-> filtered, ranked |-> ranked]

NoDetail == [cluster |-> <<>>, queries |-> <<>>, candidates |-> <<>>,
             filtered |-> <<>>, ranked |-> <<>>]

\* CandidateList.rank: the probability features and the probability of every
\* filtered candidate; probs are the probabilities the model predicts
Ranked(filtered, ents, c, w2v, sru, probs) ==
    list([k \in DOMAIN filtered |->
        [filtered[k] EXCEPT
           !.features = set_prob_features(@, ents, c,
                            Documents[filtered[k].document], w2v, sru),
           !.prob = probs[k]]])

\* Cluster.link returned result
Returned(result, head, year, detail) ==
    [raised |-> <<>>, result |-> result, head |-> head, publ_year |-> year,
     detail |-> detail, reached |-> <<>>]

\* Cluster.link raised the exception with this message
Raised(message, head, year) ==
    [raised |-> <<"Error linking entity: ", message>>,
     result |-> Result(<<"none">>, 0, <<>>), head |-> head, publ_year |-> year,
     detail |-> NoDetail, reached |-> <<>>]

\* the documents of the candidates whose set_prob_features has started when
\* rank ends: all of them, or those up to the first one that asks for vectors
\* when get_vectors raises
Reached(filtered, ents, c, raises) ==
    list([k \in {j \in DOMAIN filtered :
                   raises =>
                     \A i \in 1..(j - 1) :
                        /\ ~NeedsVectors(ents, c, Documents[filtered[i].document])
                        /\ ~NeedsEntityVectors(ents, c,
                                               Documents[filtered[i].document])}
          |-> filtered[k].document])

\* lines 587-591: rank, given the answers w2v and sru of the services and the
\* probabilities probs of the classifier; reached[1] and reached[2] are the
\* documents reached when get_vectors raises and when it does not
Rank(c, ents, ret, year, ruled, filtered, vec, w2v, sru, probs, keep, reached) ==
    IF vec /\ get_vectors_raises(w2v)
    THEN [Raised("Error retrieving word vectors", ret.head, <<year>>)
            EXCEPT !.reached = reached[1]]
    ELSE LET scored == list([k \in DOMAIN filtered |->
                            [filtered[k] EXCEPT !.prob = probs[k]]])
         IN  [Returned(ChosenResult(best_match(scored)), ret.head, <<year>>,
                       IF keep
                       THEN Detail(c, ret, ruled, filtered,
                                   Ranked(filtered, ents, c, w2v, sru, probs))
                       ELSE NoDetail)
                EXCEPT !.reached = reached[2]]

\* lines 582-591: the candidates ruled carry their rule features
RankFiltered(c, ents, ret, year, ruled, keep) ==
    LET filtered == filtered_candidates(ruled)
        vec == \E k \in DOMAIN filtered :
                  \/ NeedsVectors(ents, c, Documents[filtered[k].document])
                  \/ NeedsEntityVectors(ents, c, Documents[filtered[k].document])
        coo == \E k \in DOMAIN filtered :
                  NeedsCooccurrence(ents, c, Documents[filtered[k].document],
                                    filtered[k].features)
        reached == <<Reached(filtered, ents, c, TRUE),
                     Reached(filtered, ents, c, FALSE)>>
    IN  IF filtered = <<>>
        THEN {Returned(Result(<<"Name or date conflict">>, 0, <<>>), ret.head,
                       <<year>>,
                       IF keep THEN Detail(c, ret, ruled, filtered, <<>>)
                       ELSE NoDetail)}
        ELSE {Rank(c, ents, ret, year, ruled, filtered, vec, w2v, sru, probs, keep,
                   reached) :
                 w2v \in (IF vec THEN W2vOutcomes ELSE {"ok"}),
                 sru \in (IF coo THEN SruCountOutcomes ELSE {<<"fail", 0>>}),
                 probs \in [DOMAIN filtered -> Probs]}

\* lines 580-591: filter and rank with the publication year year
FilterRank(c, ents, ret, year, keep) ==
    IF \E k \in DOMAIN ret.candidates :
          RuleFeaturesRaise(ret.head, Documents[ret.candidates[k].document])
    THEN {Raised("list index out of range", ret.head, <<year>>)}
    ELSE RankFiltered(c, ents, ret, year,
                      WithRuleFeatures(ret.candidates, ret.head, year,
                                       normalize(Ocr(ner))),
                      keep)

\* lines 575-591: Cluster.link after the retrieval ret; cache is
\* context.publ_year before the call
AfterRetrieval(c, ents, ret, cache, keep) ==
    IF ~ret.fits THEN {}
    ELSE IF ret.failed THEN {Raised("index", ret.head, cache)}
    ELSE IF ret.candidates = <<>>
    THEN {Returned(Result(<<"Nothing found">>, 0, <<>>), ret.head, cache,
                   IF keep THEN Detail(c, ret, <<>>, <<>>, <<>>) ELSE NoDetail)}
    ELSE UNION {
            IF py[1] = "fail"
            THEN {Raised("Error retrieving metadata", ret.head, cache)}
            ELSE FilterRank(c, [ents EXCEPT ![c[1]] = ret.head], ret, py[2], keep)
            : py \in (IF cache = <<>> THEN PublYearOutcomes
                      ELSE {<<"ok", cache[1]>>})}

\* Cluster.link for cluster c: every outcome the call can have, SolrSet being
\* the answers the index can give to the four queries of an iteration
ClusterLink(c, ents, cache, SolrSet, keep) ==
    LET head == ents[c[1]]
        sub == substitute(head)
    IN  IF ~head.valid
        THEN {Returned(Result(<<"Invalid entity">>, 0, <<>>), head, cache,
                       IF keep THEN [NoDetail EXCEPT !.cluster = c] ELSE NoDetail)}
        ELSE UNION {
                UNION {AfterRetrieval(c, ents, Retrieve(head, sub, rs0, rs1), cache,
                                      keep)
                       : rs1 \in (IF SecondIteration(sub, rs0) THEN SolrSet
                                  ELSE {rs0})}
                : rs0 \in SolrSet}

(***************************************************************************)
(* The work loop, lines 118-157: pop a cluster, call Cluster.link, split   *)
(* or record.  keep says whether cur keeps the detail of the call.         *)
(***************************************************************************)
Link(SolrSet, keep) ==
    /\ pc = "loop"
    /\ clusters_to_link # <<>>
    /\ LET c == clusters_to_link[Len(clusters_to_link)]
           queue == SubSeq(clusters_to_link, 1, Len(clusters_to_link) - 1)
       IN  \E o \in ClusterLink(c, entities, publ_year, SolrSet, keep) :
              LET ents == [entities EXCEPT ![c[1]] = o.head]
                  matched == SubjectMatches(subjects, context_subjects,
                                            Ocr(ner), o.reached)
              IN  /\ entities' = ents
                  /\ publ_year' = o.publ_year
                  /\ subjects' = matched[1]
                  /\ context_subjects' = matched[2]
                  /\ IF o.raised # <<>>
                     THEN /\ Caught(o.raised)
                          /\ UNCHANGED <<clusters_to_link, clusters_linked, cur,
                                         last>>
                     ELSE /\ Finish(c, o.result, queue, ents)
                          /\ cur' = o.detail
                          /\ UNCHANGED response
    /\ UNCHANGED <<debug, ner, ne, entity_to_link, self_context, applied, lazy>>

(***************************************************************************)
(* link, lines 159-172: the response.                                      *)
(***************************************************************************)
RECURSIVE ResultsOfEntityLinked(_, _, _, _, _)
\* the inner loop appending linked records only, whatever debug is
ResultsOfEntityLinked(ents, e, linked, results, dbg) ==
    IF linked = <<>> THEN results
    ELSE LET result == ("text" :> ents[e].text) @@ get_dict(Head(linked).result)
         IN  ResultsOfEntityLinked(ents, e, Tail(linked),
                IF /\ e \in Range(Head(linked).entities)
                   /\ "link" \in DOMAIN result
                THEN Append(results, result) ELSE results,
                dbg)

RECURSIVE ResultsOfEntity(_, _, _, _, _)
\* the inner loop over clusters_linked for the mention e
ResultsOfEntity(ents, e, linked, results, dbg) ==
    IF linked = <<>> THEN results
    ELSE LET result == ("text" :> ents[e].text) @@ get_dict(Head(linked).result)
         IN  ResultsOfEntity(ents, e, Tail(linked),
                IF /\ e \in Range(Head(linked).entities)
                   /\ dbg \/ "link" \in DOMAIN result
                THEN Append(results, result) ELSE results,
                dbg)

RECURSIVE ResultsEveryMention(_, _, _, _, _)
\* the loop over to_return without the test on the texts already emitted
ResultsEveryMention(ents, to_return, linked, results, dbg) ==
    IF to_return = <<>> THEN results
    ELSE ResultsEveryMention(ents, Tail(to_return), linked,
            ResultsOfEntity(ents, Head(to_return), linked, results, dbg), dbg)

RECURSIVE Results(_, _, _, _, _)
\* the loop over to_return
Results(ents, to_return, linked, results, dbg) ==
    IF to_return = <<>> THEN results
    ELSE Results(ents, Tail(to_return), linked,
            IF \E k \in DOMAIN results : results[k].text = ents[Head(to_return)].text
            THEN results
            ELSE ResultsOfEntity(ents, Head(to_return), linked, results, dbg),
            dbg)

\* line 161; the mentions of another request's Context are numbered after
\* those of this request
to_return == IF ne # <<>> THEN <<entity_to_link>>
             ELSE IF self_context.owner = "own"
             THEN list([k \in DOMAIN entities |-> k])
             ELSE list([k \in DOMAIN self_context.entities |-> Len(entities) + k])

Assemble ==
    /\ pc = "loop"
    /\ clusters_to_link = <<>>
    /\ response' = [status |-> "ok",
                    linkedNEs |-> Results(entities \o self_context.entities,
                                          to_return, clusters_linked, <<>>,
                                          debug)]
    /\ pc' = "done"
    /\ UNCHANGED <<debug, ner, ne, entities, entity_to_link, clusters_to_link,
                   clusters_linked, cur, publ_year, last, subjects,
                   context_subjects, self_context, applied, lazy>>

\* the answers of the index in the runs of the whole request: documents for
\* the exact query or for the last-part query only, or a failure
SolrSome ==
    {<<r, <<>>, <<>>, <<>>>> : r \in SolrResponses}
    \cup {<< <<>>, <<>>, <<>>, <<1>>>>, <<SOLR_FAILS, <<>>, <<>>, <<>>>>}

LinkCluster == Link(SolrSome, FALSE)

Next ==
    \/ ContextFails
    \/ Start
    \/ LinkCluster
    \/ Assemble

Spec == Init /\ [][Next]_vars

(***************************************************************************)
(* Two requests on one EntityLinker: while this request is in its work     *)
(* loop, another call of link on the same object runs line 87 for its own  *)
(* article.                                                                *)
(***************************************************************************)
\* what the NER service returns for the article of the other request
OtherArticles == {n \in NerLists : Len(n) = 1 /\ ~EntityRaises(n[1][1])}

OtherLink ==
    /\ pc = "loop"
    /\ self_context.owner = "own"
    /\ \E other \in OtherArticles :
          self_context' = [owner |-> "other",
                           entities |-> BuildEntities(other, Ocr(other), 0, <<>>)]
    /\ UNCHANGED <<debug, ner, ne, pc, entities, entity_to_link, clusters_to_link,
                   clusters_linked, cur, publ_year, response, last, subjects,
                   context_subjects, applied, lazy>>

NextTwo ==
    \/ ContextFails
    \/ Start
    \/ LinkCluster
    \/ Assemble
    \/ OtherLink

SpecTwo == Init /\ [][NextTwo]_vars

(***************************************************************************)
(* The first Cluster.link call of a request, with the detail of the call   *)
(* kept in cur.                                                            *)
(***************************************************************************)
LinkFirst ==
    /\ last.n = 0
    /\ Link(SolrSome, TRUE)

NextLink ==
    \/ ContextFails
    \/ Start
    \/ LinkFirst

SpecLink == Init /\ [][NextLink]_vars

(***************************************************************************)
(* Properties of the response.                                             *)
(***************************************************************************)
\* the request returned {'status': 'ok', 'linkedNEs': ...}
Completed == pc = "done" /\ response.status = "ok"

\* the results of the recorded clusters that contain mention i
ResultsFor(i) ==
    {clusters_linked[k].result :
        k \in {j \in DOMAIN clusters_linked : i \in Range(clusters_linked[j].entities)}}

\* the first mention with text t among the mentions in the set among
FirstWithText(t, among) ==
    CHOOSE i \in among :
        /\ entities[i].text = t
        /\ \A j \in among : entities[j].text = t => i <= j

\* the record rec renders the result r
Renders(rec, r) ==
    /\ rec.reason = r.reason
    /\ "prob" \in DOMAIN rec <=> r.prob # 0
    /\ "prob" \in DOMAIN rec => rec.prob = r.prob
    /\ "link" \in DOMAIN rec <=> r.link # 0
    /\ "link" \in DOMAIN rec => rec.link = r.link

\* C1: in every 'ok' response no two records of linkedNEs have the same text
C1_UniqueTexts ==
    Completed =>
        \A i, j \in DOMAIN response.linkedNEs :
            i # j => response.linkedNEs[i].text # response.linkedNEs[j].text

\* two mentions with the same text ended in different recorded clusters, after
\* a split, and the response has a record for their text
C1_Witness ==
    /\ Completed
    /\ last.n >= 3
    /\ \E i, j \in DOMAIN entities :
          /\ i # j
          /\ entities[i].text = entities[j].text
          /\ ResultsFor(i) # {} /\ ResultsFor(j) # {}
          /\ \A k \in DOMAIN clusters_linked :
                ~({i, j} \subseteq Range(clusters_linked[k].entities))
          /\ \E k \in DOMAIN response.linkedNEs :
                response.linkedNEs[k].text = entities[i].text

\* the reasons of an abstention without a candidate
Abstentions == {<<"Invalid entity">>, <<"Nothing found">>,
                <<"Name or date conflict">>}

\* linkedNEs holds exactly one record for the text t, rendering the result of
\* the recorded cluster of the first mention with that text: a link with its
\* probability, or an abstention
OneRecordFromFirst(t) ==
    LET recs == {k \in DOMAIN response.linkedNEs : response.linkedNEs[k].text = t}
        first == FirstWithText(t, DOMAIN entities)
    IN  /\ Cardinality(recs) = 1
        /\ \A k \in recs :
              /\ \A r \in ResultsFor(first) : Renders(response.linkedNEs[k], r)
              /\ \/ /\ "link" \in DOMAIN response.linkedNEs[k]
                    /\ "prob" \in DOMAIN response.linkedNEs[k]
                 \/ response.linkedNEs[k].reason \in Abstentions
                 \/ response.linkedNEs[k].reason[1] = "Probability too low for: "

LinkedWithText(t) ==
    {i \in DOMAIN entities :
        /\ entities[i].text = t
        /\ \E r \in ResultsFor(i) : r.link # 0}

C3_LinkIffProb ==
    Completed =>
        \A k \in DOMAIN response.linkedNEs :
            LET rec == response.linkedNEs[k]
            IN  /\ "reason" \in DOMAIN rec
                /\ \E i \in DOMAIN entities :
                      /\ entities[i].text = rec.text
                      /\ \E r \in ResultsFor(i) :
                            /\ rec.reason = r.reason
                            /\ "link" \in DOMAIN rec <=> r.prob >= MIN_PROB

\* a response with a linked record and a record whose probability is too low
C3_Witness ==
    /\ Completed
    /\ \E k \in DOMAIN response.linkedNEs : "link" \in DOMAIN response.linkedNEs[k]
    /\ \E k \in DOMAIN response.linkedNEs :
          /\ response.linkedNEs[k].reason[1] = "Probability too low for: "
          /\ "link" \notin DOMAIN response.linkedNEs[k]

(***************************************************************************)
(* Properties of the work loop.                                            *)
(***************************************************************************)
RECURSIVE Work(_)
\* the pops the clusters of a queue can still cause: 2 * size - 1 for each
Work(queue) ==
    IF queue = <<>> THEN 0 ELSE 2 * Len(Head(queue)) - 1 + Work(Tail(queue))

\* C4: the work loop terminates: every pop either ends the request or strictly
\* decreases the work left in the queue, which is never negative, because
\* every split replaces the cluster by clusters that are each strictly smaller;
\* the loop is left with an empty queue when the request completes
C4_LoopTerminates ==
    /\ [][pc = "loop" => (pc' # "loop" \/ Work(clusters_to_link') < Work(clusters_to_link))]_vars
    /\ [](Work(clusters_to_link) >= 0)
    /\ [](last.split =>
            \A k \in DOMAIN last.new_clusters :
                /\ Len(last.new_clusters[k]) < Len(last.cluster)
                /\ Len(last.new_clusters[k]) > 0)
    /\ [](Completed => clusters_to_link = <<>>)

\* a request completed after a split caused by a substitution that changed the
\* norm of the head
C4_Witness ==
    /\ Completed
    /\ last.n >= 3
    /\ \E i \in DOMAIN entities : entities[i].norm # normalize(entities[i].text)

\* C5: after a popped cluster is linked, it is split (the head group and the
\* re-clustered dependencies go to the queue; with a requested mention, those
\* of them that contain it) iff it has dependencies and no candidate was chosen
\* or the chosen candidate is not a Person; otherwise it is appended to
\* clusters_linked and nothing is enqueued
C5_SplitRule ==
    [][(pc = "loop" /\ pc' = "loop") =>
        LET c == clusters_to_link[Len(clusters_to_link)]
            queue == SubSeq(clusters_to_link, 1, Len(clusters_to_link) - 1)
            r == last'.result
            deps == SelectSeq(c, LAMBDA k : entities'[k].norm # entities'[c[1]].norm)
            head_group == SelectSeq(c, LAMBDA k :
                                       entities'[k].norm = entities'[c[1]].norm)
            person == /\ r.description # 0
                      /\ \/ "Person" \in Range(Documents[r.description].schema_type)
                         \/ "Person" \in Range(Documents[r.description].dbo_type)
            parts == <<head_group>> \o get_clusters(entities', deps)
        IN  IF deps # <<>> /\ (r.description = 0 \/ ~person)
            THEN /\ clusters_linked' = clusters_linked
                 /\ clusters_to_link' = queue \o
                       (IF ne = <<>> THEN parts
                        ELSE SelectSeq(parts, LAMBDA x : entity_to_link \in Range(x)))
            ELSE /\ clusters_linked' = Append(clusters_linked,
                                              [entities |-> c, result |-> r])
                 /\ clusters_to_link' = queue
      ]_vars

\* a cluster was split although a candidate was chosen for it
C5_Witness ==
    /\ last.split
    /\ last.result.description # 0
    /\ Len(last.new_clusters) >= 2

\* C6: with a requested mention the queue holds at most one cluster and every
\* queued cluster contains the requested mention; after a split only the new
\* cluster that contains it is enqueued; at the end exactly one recorded cluster
\* contains it and the response holds at most one record
C6_RequestedOnly ==
    (ne # <<>> /\ pc \in {"loop", "done"}) =>
        /\ Len(clusters_to_link) <= 1
        /\ \A k \in DOMAIN clusters_to_link :
              entity_to_link \in Range(clusters_to_link[k])
        /\ (pc = "loop" /\ last.split) =>
              clusters_to_link =
                 SelectSeq(last.new_clusters, LAMBDA x : entity_to_link \in Range(x))
        /\ Completed =>
              /\ Cardinality({k \in DOMAIN clusters_linked :
                     entity_to_link \in Range(clusters_linked[k].entities)}) = 1
              /\ Len(response.linkedNEs) <= 1

\* a request for one mention completed after a split that left another
\* mention of its cluster unlinked
C6_Witness ==
    /\ ne # <<>>
    /\ Completed
    /\ last.n >= 2
    /\ Len(response.linkedNEs) = 1
    /\ \E i \in DOMAIN entities : ResultsFor(i) = {}

(***************************************************************************)
(* Properties of Cluster.link.                                             *)
(***************************************************************************)
\* the first Cluster.link call of the request returned
Linked == last.n = 1

\* C7: Cluster.link decides its reason by the first applicable step: 'Invalid
\* entity' iff the head is invalid (and then no query is issued); otherwise
\* 'Nothing found' iff no candidate was retrieved; otherwise 'Name or date
\* conflict' iff no candidate passes the filter; otherwise 'Predicted link'
\* with the top-ranked candidate iff its probability is at least MIN_PROB, else
\* 'Probability too low for: <label>' with that candidate; a candidate is
\* attached only in the last two cases
C7_ReasonOrder ==
    Linked =>
        LET r == last.result
            head == entities[last.cluster[1]]
            passing == {k \in DOMAIN cur.candidates :
                           /\ cur.candidates[k].features.match_str_conflict = 0
                           /\ cur.candidates[k].features.match_txt_date > -4}
            tops == {k \in DOMAIN cur.ranked :
                        /\ \A j \in DOMAIN cur.ranked :
                              cur.ranked[j].prob <= cur.ranked[k].prob
                        /\ \A j \in 1..(k - 1) :
                              cur.ranked[j].prob < cur.ranked[k].prob}
        IN  /\ r.reason = <<"Invalid entity">> <=> ~head.valid
            /\ ~head.valid => cur.queries = <<>>
            /\ head.valid =>
                  (r.reason = <<"Nothing found">> <=> cur.candidates = <<>>)
            /\ (head.valid /\ cur.candidates # <<>>) =>
                  (r.reason = <<"Name or date conflict">> <=> passing = {})
            /\ (head.valid /\ passing # {}) =>
                  /\ Len(cur.ranked) = Cardinality(passing)
                  /\ \A k \in tops :
                        /\ r.description = cur.ranked[k].document
                        /\ r.prob = cur.ranked[k].prob
                        /\ r.reason =
                              IF cur.ranked[k].prob >= MIN_PROB
                              THEN <<"Predicted link">>
                              ELSE <<"Probability too low for: ",
                                     Documents[cur.ranked[k].document].label>>
            /\ r.description # 0 <=>
                  r.reason[1] \in {"Predicted link", "Probability too low for: "}

\* the second of two filtered candidates has the greater probability and is
\* the predicted link
C7_Witness ==
    /\ Linked
    /\ Len(cur.ranked) = 2
    /\ cur.ranked[1].prob < cur.ranked[2].prob
    /\ last.result.reason = <<"Predicted link">>
    /\ last.result.description = cur.ranked[2].document

(***************************************************************************)
(* Properties of the error handling.                                       *)
(***************************************************************************)
\* link returned the error response of a failed Cluster.link whose exception
\* has this message
LinkingFailedWith(message) ==
    /\ pc = "done"
    /\ response.status = "error"
    /\ response.message = <<"Error linking entity: ", message>>

\* C8: with debug off no exception escapes link: every failure is returned as
\* an error response; with debug on the failures propagate
C8_NoExceptionEscapes ==
    /\ ~debug => pc # "raised"
    /\ debug => ~(pc = "done" /\ response.status = "error")

\* C9: a word-vector service that does not answer 200 leaves the feature at
\* its default and the request does not end with its failure
C9_VectorFailureDegrades == ~LinkingFailedWith("Error retrieving word vectors")

\* C10: CandidateList.filter never raises, whatever the publication-year
\* lookup yields
C10_FilterNeverRaises == ~LinkingFailedWith("Error retrieving metadata")

(***************************************************************************)
(* C11: a link request leaves the process-wide lexicons unchanged: the     *)
(* word list of every entry of dictionary.subjects is, in every state of a *)
(* request, the list the module was loaded with.                           *)
(***************************************************************************)
C11_LexiconsUnchanged == subjects = dictionary_subjects

(***************************************************************************)
(* C12: a request whose steps interleave with those of another request on  *)
(* the same EntityLinker returns what it returns when run alone: its       *)
(* records are those of the mentions of its own article.                   *)
(***************************************************************************)
C12_RequestsIndependent ==
    Completed =>
        response.linkedNEs =
            Results(entities,
                    IF ne # <<>> THEN <<entity_to_link>>
                    ELSE list([k \in DOMAIN entities |-> k]),
                    clusters_linked, <<>>, debug)

(***************************************************************************)
(* get_clusters on its own: articles whose mentions are names of several   *)
(* lengths, clustered by the request and then cluster by cluster again.    *)
(***************************************************************************)
\* longest list of mentions of these articles
MaxNames == 3

\* Jan de Vries, J. de Vries, de Vries, Jan, Jan Vos, Vos
NameKinds == {<< <<"J","a","n"," ","d","e"," ","V","r","i","e","s">>, "person">>, << <<"J","."," ","d","e"," ","V","r","i","e","s">>, "person">>,
              << <<"d","e"," ","V","r","i","e","s">>, "person">>,
              << <<"J","a","n">>, "person">>, << <<"J","a","n"," ","V","o","s">>, "person">>, <<T_Vos, "person">>}

InitNames ==
    /\ debug = FALSE
    /\ ner \in UNION {[1..n -> NameKinds] : n \in 1..MaxNames}
    /\ ne = <<>>
    /\ pc = "start"
    /\ entities = <<>>
    /\ entity_to_link = 0
    /\ clusters_to_link = <<>>
    /\ clusters_linked = <<>>
    /\ cur = [cluster |-> <<>>, queries |-> <<>>, candidates |-> <<>>,
             filtered |-> <<>>, ranked |-> <<>>]
    /\ publ_year = <<>>
    /\ response = NoResponse
    /\ last = NoLast
    /\ subjects = dictionary_subjects
    /\ context_subjects = <<>>
    /\ self_context = OwnContext
    /\ applied = <<>>
    /\ lazy = NoLazy

\* get_clusters applied to the members of one of the clusters of the queue
Recluster ==
    /\ pc = "loop"
    /\ applied = <<>>
    /\ \E k \in DOMAIN clusters_to_link :
          applied' = [fn |-> "get_clusters", arg |-> clusters_to_link[k],
                      value |-> get_clusters(entities, clusters_to_link[k])]
    /\ UNCHANGED <<debug, ner, ne, pc, entities, entity_to_link, clusters_to_link,
                   clusters_linked, cur, publ_year, response, last, subjects,
                   context_subjects, self_context, lazy>>

NextNames ==
    \/ Start
    \/ Recluster

SpecNames == InitNames /\ [][NextNames]_vars

(***************************************************************************)
(* C13: clustering is idempotent: get_clusters applied to the members of   *)
(* a cluster that get_clusters returned gives exactly one cluster, and it  *)
(* holds all the members of that cluster.                                  *)
(***************************************************************************)
C13_ClusteringIdempotent ==
    (applied # <<>> /\ applied.fn = "get_clusters")
        => /\ Len(applied.value) = 1
           /\ Range(applied.value[1]) = Range(applied.arg)
           /\ Len(applied.value[1]) = Len(applied.arg)

\* a cluster of three mentions, one of them attached by a partial match, has
\* been clustered again
C13_Witness ==
    /\ applied # <<>>
    /\ applied.fn = "get_clusters"
    /\ Len(applied.arg) = 3
    /\ \E a, b \in Range(applied.arg) : entities[a].norm # entities[b].norm

(***************************************************************************)
(* C15: a mention and the mention that abbreviates its first name to an    *)
(* initial (norms 'jan de vries' and 'j de vries') are put in the same     *)
(* cluster by get_clusters, so that the abbreviated mention gets the       *)
(* outcome of that cluster.                                                *)
(***************************************************************************)
C15_InitialClustersWithName ==
    pc = "loop" =>
        \A a, b \in DOMAIN entities :
            (/\ entities[a].norm = <<"j"," ","d","e"," ","v","r","i","e","s">>
             /\ entities[b].norm = <<"j","a","n"," ","d","e"," ","v","r","i","e","s">>)
                => \E k \in DOMAIN clusters_to_link :
                      {a, b} \subseteq Range(clusters_to_link[k])

(***************************************************************************)
(* Requests for articles about 'Voss': a name that two successive spelling *)
(* substitutions can shorten (voss, vos, vo).                              *)
(***************************************************************************)
\* minister Voss, Voss
VossKinds == {<< <<"m","i","n","i","s","t","e","r"," ","V","o","s","s">>, "person">>,
              << <<"V","o","s","s">>, "person">>}

InitVoss ==
    /\ debug \in BOOLEAN
    /\ ner \in UNION {[1..n -> VossKinds] : n \in 1..MaxMentions}
    /\ ne = <<>>
    /\ pc = "start"
    /\ entities = <<>>
    /\ entity_to_link = 0
    /\ clusters_to_link = <<>>
    /\ clusters_linked = <<>>
    /\ cur = [cluster |-> <<>>, queries |-> <<>>, candidates |-> <<>>,
             filtered |-> <<>>, ranked |-> <<>>]
    /\ publ_year = <<>>
    /\ response = NoResponse
    /\ last = NoLast
    /\ subjects = dictionary_subjects
    /\ context_subjects = <<>>
    /\ self_context = OwnContext
    /\ applied = <<>>
    /\ lazy = NoLazy

SpecVoss == InitVoss /\ [][Next]_vars

\* substitute() has succeeded on mention e: its norm is no longer the
\* normalised text
HasSubstituted(e) == e.norm # normalize(e.text)

(***************************************************************************)
(* C14: within a request the spelling substitution of a mention is applied *)
(* at most once: a mention on which substitute() has succeeded keeps its   *)
(* norm, stripped and last_part in every later step of the request.        *)
(***************************************************************************)
C14_SubstitutedOnce ==
    [][\A k \in DOMAIN entities :
          (k \in DOMAIN entities' /\ HasSubstituted(entities[k]))
              => /\ entities'[k].norm = entities[k].norm
                 /\ entities'[k].stripped = entities[k].stripped
                 /\ entities'[k].last_part = entities[k].last_part]_vars

(***************************************************************************)
(* C16: every feature value of a candidate lies in [-1, 1]; for the ratio  *)
(* match_txt_entities_newspapers (co-occurrence record count divided by    *)
(* the candidate's newspaper inlinks) this says that the count does not    *)
(* exceed the inlinks.                                                     *)
(***************************************************************************)
C16_CooccurrenceRatioBounded ==
    \A k \in DOMAIN cur.ranked :
        LET ratio == cur.ranked[k].features.match_txt_entities_newspapers
        IN  /\ ratio[1] <= ratio[2]
            /\ -ratio[2] <= ratio[1]

(***************************************************************************)
(* The lazily derived attributes followed through a request.  A feature    *)
(* method of Description reaches its hasattr guards in the order of the     *)
(* code or returns before one of them; whether it does depends on the      *)
(* candidate and is left open.                                             *)
(***************************************************************************)
\* most Cluster objects linked in a request, most feature methods followed
\* on one of them
MaxClusters == 2
MaxSetterCalls == 3

\* the guards a feature method reaches, in order (a method that can return
\* between two guards has a row for each length)
LazySites ==
    {[method |-> "set_date_match", asks |-> <<"publ_year">>],
     [method |-> "set_first_part_match", asks |-> <<"ocr_norm">>],
     [method |-> "set_entity_quotes", asks |-> <<"sum_quotes">>],
     [method |-> "set_entity_type", asks |-> <<"type_ratios">>],
     [method |-> "set_candidate_inlinks", asks |-> <<"sum_inlinks">>],
     [method |-> "set_candidate_inlinks", asks |-> <<"sum_inlinks_newspapers">>],
     [method |-> "set_candidate_inlinks",
      asks |-> <<"sum_inlinks", "sum_inlinks_newspapers">>],
     [method |-> "set_solr_properties", asks |-> <<"max_score">>],
     [method |-> "set_type_match", asks |-> <<"type_ratios">>],
     [method |-> "set_spec_match", asks |-> <<"ocr_norm">>],
     [method |-> "set_keyword_match", asks |-> <<"ocr_bow">>],
     [method |-> "set_subject_match", asks |-> <<"subjects">>],
     [method |-> "set_vector_match", asks |-> <<"window">>],
     [method |-> "set_vector_match", asks |-> <<"window", "window_vectors">>],
     [method |-> "set_entity_match",
      asks |-> <<"entity_parts", "context_entity_parts">>],
     [method |-> "set_entity_vector_match", asks |-> <<"context_entity_parts">>],
     [method |-> "set_entity_vector_match",
      asks |-> <<"context_entity_parts", "context_entity_vectors">>]}

\* hasattr(object, field) with the weaker test of the attribute's truth value
\* for the publication year
hasattrTruthy(l, year, field) ==
    IF field = "publ_year" THEN year \notin {<<>>, <<0>>} ELSE field \in l.has

\* hasattr(object, field); year is context.publ_year
hasattr(l, year, field) ==
    IF field = "publ_year" THEN year # <<>> ELSE field \in l.has

\* the getter of field runs: the attributes it assigns are set
Computed(l, field) ==
    [l EXCEPT !.has = @ \cup (IF field \in {"sum_inlinks", "sum_inlinks_newspapers"}
                              THEN {"sum_inlinks", "sum_inlinks_newspapers"}
                              ELSE {field}),
              !.count[IF field = "sum_inlinks_newspapers" THEN "sum_inlinks"
                      ELSE field] = @ + 1]

\* 'if not hasattr(object, field): <getter>'; get_window and
\* get_context_entity_parts first ask for entity_parts in the same way
Guarded(l, year, field) ==
    IF hasattr(l, year, field) THEN [l EXCEPT !.again = @ \cup {field}]
    ELSE IF field \in {"window", "context_entity_parts"}
    THEN Computed(IF hasattr(l, year, "entity_parts")
                  THEN [l EXCEPT !.again = @ \cup {"entity_parts"}]
                  ELSE Computed(l, "entity_parts"),
                  field)
    ELSE Computed(l, field)

RECURSIVE GuardedAll(_, _, _)
GuardedAll(l, year, asks) ==
    IF asks = <<>> THEN l
    ELSE GuardedAll(Guarded(l, year, Head(asks)), year, Tail(asks))

\* the getter of one of the guards asks raises: get_publ_year on a failed
\* metadata request, get_vectors on a failed word-vector request
GetterRaises(l, year, asks, py, w2v) ==
    \E k \in DOMAIN asks :
        /\ ~hasattr(l, year, asks[k])
        /\ \/ asks[k] = "publ_year" /\ py[1] = "fail"
           \/ asks[k] \in {"window_vectors", "context_entity_vectors"}
              /\ get_vectors_raises(w2v)

InitLazy ==
    /\ debug \in BOOLEAN
    /\ ner = << <<T_Vos, "person">> >>
    /\ ne = <<>>
    /\ pc = "start"
    /\ entities = <<>>
    /\ entity_to_link = 0
    /\ clusters_to_link = <<>>
    /\ clusters_linked = <<>>
    /\ cur = [cluster |-> <<>>, queries |-> <<>>, candidates |-> <<>>,
             filtered |-> <<>>, ranked |-> <<>>]
    /\ publ_year = <<>>
    /\ response = NoResponse
    /\ last = NoLast
    /\ subjects = dictionary_subjects
    /\ context_subjects = <<>>
    /\ self_context = OwnContext
    /\ applied = <<>>
    /\ lazy = NoLazy

\* lines 118-120 and 575-578: the loop takes a Cluster object (one built by
\* get_clusters or by a split) and Cluster.link builds its CandidateList;
\* neither has a derived attribute yet
NextCluster ==
    /\ pc = "loop"
    /\ lazy.clusters < MaxClusters
    /\ lazy' = [lazy EXCEPT
                  !.has = @ \cap ContextFields,
                  !.again = @ \cap ContextFields,
                  !.count = [f \in DOMAIN @ |-> IF f \in ContextFields THEN @[f]
                                                ELSE 0],
                  !.clusters = @ + 1, !.calls = 0]
    /\ UNCHANGED <<debug, ner, ne, pc, entities, entity_to_link, clusters_to_link,
                   clusters_linked, cur, publ_year, response, last, subjects,
                   context_subjects, self_context, applied>>

\* a feature method of a candidate of the latest CandidateList runs up to
\* its guards
SetFeature ==
    /\ pc = "loop"
    /\ lazy.clusters > 0
    /\ lazy.calls < MaxSetterCalls
    /\ \E site \in LazySites, py \in PublYearOutcomes, w2v \in W2vOutcomes :
          IF GetterRaises(lazy, publ_year, site.asks, py, w2v)
          THEN /\ Caught(<<"Error linking entity: ", site.method>>)
               /\ UNCHANGED <<publ_year, lazy>>
          ELSE /\ lazy' = [GuardedAll(lazy, publ_year, site.asks)
                             EXCEPT !.calls = @ + 1]
               /\ publ_year' = IF "publ_year" \in Range(site.asks) /\ publ_year = <<>>
                               THEN <<py[2]>> ELSE publ_year
               /\ UNCHANGED <<pc, response>>
    /\ UNCHANGED <<debug, ner, ne, entities, entity_to_link, clusters_to_link,
                   clusters_linked, cur, last, subjects, context_subjects,
                   self_context, applied>>

NextLazy ==
    \/ Start
    \/ NextCluster
    \/ SetFeature

SpecLazy == InitLazy /\ [][NextLazy]_vars

(***************************************************************************)
(* C17: within a request each lazily derived Context field is computed at  *)
(* most once (also when the publication year is None), and each derived    *)
(* field of a Cluster and of a CandidateList at most once for that object. *)
(***************************************************************************)
C17_ComputedOnce == \A f \in DOMAIN lazy.count : lazy.count[f] <= 1

\* the second Cluster object of a request asks again for a publication year
\* that is None, and twice for its own type ratios
C17_Witness ==
    /\ lazy.clusters = 2
    /\ publ_year = <<0>>
    /\ {"publ_year", "type_ratios"} \subseteq lazy.again
    /\ lazy.count["publ_year"] = 1
    /\ lazy.count["type_ratios"] = 1

(***************************************************************************)
(* Retrieval on its own: the first Cluster.link call of a request for an   *)
(* article about 'Voss', the index answering each of the four queries of   *)
(* an iteration with any of its lists of documents.                        *)
(***************************************************************************)
SolrMore ==
    {<<a, b, c, d>> : a, b, c, d \in {<<>>, <<1>>, <<2>>}}
    \cup {<< <<2, 1>>, <<>>, <<>>, <<>> >>, << <<>>, <<>>, <<2, 1>>, <<1>> >>}

LinkMore ==
    /\ last.n = 0
    /\ Link(SolrMore, TRUE)

NextRetrieve ==
    \/ Start
    \/ LinkMore

SpecRetrieve == InitVoss /\ [][NextRetrieve]_vars

\* the candidates of cur that the queries before query j of cur returned
FoundBefore(j) ==
    {k \in DOMAIN cur.candidates :
        \E h \in 1..(j - 1) : cur.candidates[k].document \in Range(cur.queries[h][4])}

(***************************************************************************)
(* C18: the candidates of a retrieval are at most SOLR_ROWS and their      *)
(* document ids differ; the query variants of an iteration are issued in   *)
(* the order 0, 1, 2, 3, each asking for exactly the remaining budget and  *)
(* none once the budget is reached; every candidate carries the iteration  *)
(* and the variant of the first query that returned its id.                *)
(***************************************************************************)
C18_RetrievalBudget ==
    /\ Len(cur.candidates) <= SOLR_ROWS
    /\ \A a, b \in DOMAIN cur.candidates :
          Documents[cur.candidates[a].document].id
             = Documents[cur.candidates[b].document].id => a = b
    /\ \A j \in DOMAIN cur.queries :
          /\ cur.queries[j][3] = SOLR_ROWS - Cardinality(FoundBefore(j))
          /\ cur.queries[j][3] > 0
          /\ IF j = 1 THEN cur.queries[j][1] = 0 /\ cur.queries[j][2] = 0
             ELSE \/ /\ cur.queries[j][1] = cur.queries[j - 1][1]
                     /\ cur.queries[j][2] = cur.queries[j - 1][2] + 1
                     /\ cur.queries[j][2] <= 3
                  \/ /\ cur.queries[j][1] = cur.queries[j - 1][1] + 1
                     /\ cur.queries[j][2] = 0
    /\ \A k \in DOMAIN cur.candidates :
          \E j \in DOMAIN cur.queries :
              /\ cur.candidates[k].document \in Range(cur.queries[j][4])
              /\ k \notin FoundBefore(j)
              /\ cur.candidates[k].query_iteration = cur.queries[j][1]
              /\ cur.candidates[k].query_id = cur.queries[j][2]
    /\ \A j \in DOMAIN cur.queries :
          \A d \in Range(cur.queries[j][4]) :
              \E k \in DOMAIN cur.candidates : cur.candidates[k].document = d

\* a later query returned a document again, and a query after the first
\* one reached the budget with a new document, so that no query followed
C18_Witness ==
    /\ Len(cur.candidates) = SOLR_ROWS
    /\ Len(cur.queries) = 3
    /\ \E j \in DOMAIN cur.queries :
          /\ cur.queries[j][3] < SOLR_ROWS
          /\ \E k \in FoundBefore(j) :
                cur.candidates[k].document \in Range(cur.queries[j][4])
    /\ \E k \in DOMAIN cur.candidates : k \notin FoundBefore(3)

(***************************************************************************)
(* C19: iteration 1 issues queries only if iteration 0 returned no         *)
(* candidate and substitute() succeeded on the head; substitute() is not   *)
(* called when iteration 0 returned a candidate; all candidates of a       *)
(* CandidateList carry the same iteration index, and index 1 only if the   *)
(* head's norm was substituted.                                            *)
(***************************************************************************)
C19_SecondIterationGuarded ==
    cur.cluster # <<>> =>
        LET head == entities[cur.cluster[1]]
            second == \E j \in DOMAIN cur.queries : cur.queries[j][1] = 1
        IN  /\ second =>
                /\ HasSubstituted(head)
                /\ \A j \in DOMAIN cur.queries :
                      cur.queries[j][1] = 0 => cur.queries[j][4] = <<>>
            /\ (\E k \in DOMAIN cur.candidates :
                   cur.candidates[k].query_iteration = 0) => ~HasSubstituted(head)
            /\ \A a, b \in DOMAIN cur.candidates :
                  cur.candidates[a].query_iteration
                     = cur.candidates[b].query_iteration
            /\ \A k \in DOMAIN cur.candidates :
                  cur.candidates[k].query_iteration = 1 => HasSubstituted(head)

\* iteration 0 found nothing, the head was substituted and iteration 1 found
\* candidates
C19_Witness ==
    /\ cur.cluster # <<>>
    /\ HasSubstituted(entities[cur.cluster[1]])
    /\ cur.candidates # <<>>
    /\ \A k \in DOMAIN cur.candidates : cur.candidates[k].query_iteration = 1
    /\ Len(cur.queries) > 4

(***************************************************************************)
(* set_date_match on its own, next to the first Cluster.link call of a     *)
(* request: either a request starts, or the publication year of the        *)
(* context and the years of a candidate's document are given and           *)
(* set_date_match is applied to them (0 stands for None).                  *)
(***************************************************************************)
InitDate ==
    \/ Init
    \/ /\ debug = FALSE
       /\ ner = <<>>
       /\ ne = <<>>
       /\ pc = "apply"
       /\ entities = <<>>
       /\ entity_to_link = 0
       /\ clusters_to_link = <<>>
       /\ clusters_linked = <<>>
       /\ cur = NoDetail
       /\ publ_year \in {<<y>> : y \in {0, 1869, 1879, 1880, 1899, 1900, 1909, 1910,
                                        1959, 1960, 1969, 1970, 1980}}
       /\ response = NoResponse
       /\ last = NoLast
       /\ subjects = dictionary_subjects
       /\ context_subjects = <<>>
       /\ self_context = OwnContext
       /\ applied \in {[fn |-> "set_date_match",
                       arg |-> [birth_year |-> b, death_year |-> d],
                       value |-> <<>>] :
                          b \in {0, 1880, 1900}, d \in {0, 1870, 1890, 1950}}
       /\ lazy = NoLazy

SetDateMatch ==
    /\ pc = "apply"
    /\ applied.value = <<>>
    /\ applied' = [applied EXCEPT !.value = <<set_date_match(publ_year[1], applied.arg)>>]
    /\ UNCHANGED <<debug, ner, ne, pc, entities, entity_to_link, clusters_to_link,
                   clusters_linked, cur, publ_year, response, last, subjects,
                   context_subjects, self_context, lazy>>

NextDate ==
    \/ ContextFails
    \/ Start
    \/ LinkFirst
    \/ SetDateMatch

SpecDate == InitDate /\ [][NextDate]_vars

\* set_date_match has been applied to the years of applied.arg
DateApplied == pc = "apply" /\ applied.value # <<>>

(***************************************************************************)
(* C20: the date feature is 0 when the publication year or the birth year  *)
(* is unknown; otherwise, the death year defaulting to birth year + 80, it *)
(* is -1 before the birth year, 0.5 in the twenty years from it, 1 from    *)
(* then until twenty years after the death year, and 0.75 later (the       *)
(* feature is kept as four times its value).  A candidate whose birth year *)
(* is after the publication year is not among the filtered candidates, and *)
(* when every candidate is rejected the reason is 'Name or date conflict'. *)
(***************************************************************************)
C20_DateFeature ==
    /\ DateApplied =>
          LET publ == publ_year[1]
              birth == applied.arg.birth_year
              death == IF applied.arg.death_year = 0 THEN birth + 80
                       ELSE applied.arg.death_year
          IN  applied.value[1] =
                 IF publ = 0 \/ birth = 0 THEN 0
                 ELSE IF publ < birth THEN -4
                 ELSE IF birth <= publ /\ publ < birth + 20 THEN 2
                 ELSE IF birth + 20 <= publ /\ publ < death + 20 THEN 4
                 ELSE 3
    /\ (cur.candidates # <<>> /\ publ_year # <<>>) =>
          /\ \A k \in DOMAIN cur.candidates :
                LET doc == Documents[cur.candidates[k].document]
                IN  (publ_year[1] # 0 /\ doc.birth_year # 0
                        /\ publ_year[1] < doc.birth_year)
                       => \A j \in DOMAIN cur.filtered :
                             cur.filtered[j].document # cur.candidates[k].document
          /\ cur.filtered = <<>>
                => last.result.reason = <<"Name or date conflict">>

\* the feature of an article published more than twenty years after the
\* death of the candidate: 0.75
C20_Witness ==
    /\ DateApplied
    /\ applied.arg.death_year # 0
    /\ publ_year[1] >= applied.arg.death_year + 20
    /\ applied.value = <<3>>

(***************************************************************************)
(* set_rule_features on its own: the labels of a candidate's document, the *)
(* norm of the head mention (nothing to strip: stripped is the norm) and   *)
(* the normalised OCR are given and set_rule_features is applied to them.  *)
(***************************************************************************)
\* vos, jan vos, vos janssen, kat, x jan piet vos, jan piet jan vos
RuleLabels ==
    {<<"v","o","s">>,
     <<"j","a","n"," ","v","o","s">>,
     <<"v","o","s"," ","j","a","n","s","s","e","n">>,
     <<"k","a","t">>,
     <<"x"," ","j","a","n"," ","p","i","e","t"," ","v","o","s">>,
     <<"j","a","n"," ","p","i","e","t"," ","j","a","n"," ","v","o","s">>}

\* vos, jan vos, j p vos, piet jan vos
RuleHeads ==
    {<<"v","o","s">>,
     <<"j","a","n"," ","v","o","s">>,
     <<"j"," ","p"," ","v","o","s">>,
     <<"p","i","e","t"," ","j","a","n"," ","v","o","s">>}

InitRules ==
    /\ debug = FALSE
    /\ ner = <<>>
    /\ ne = <<>>
    /\ pc = "apply"
    /\ entities = <<>>
    /\ entity_to_link = 0
    /\ clusters_to_link = <<>>
    /\ clusters_linked = <<>>
    /\ cur = NoDetail
    /\ publ_year = <<0>>
    /\ response = NoResponse
    /\ last = NoLast
    /\ subjects = dictionary_subjects
    /\ context_subjects = <<>>
    /\ self_context = OwnContext
    /\ applied \in {[fn |-> "set_rule_features",
                    arg |-> [doc |-> [pref_label |-> pref, alt_label |-> alt,
                                      last_part |-> last_part,
                                      birth_year |-> 0, death_year |-> 0],
                             head |-> [norm |-> head, stripped |-> head],
                             ocr_norm |-> ocr],
                    value |-> <<>>] :
                       pref \in RuleLabels,
                       alt \in {<<>>} \cup {<<l>> : l \in RuleLabels},
                       last_part \in {<<>>, <<"v","o","s">>},
                       head \in RuleHeads,
                       ocr \in {<<"v","o","s">>, <<"v","o","s"," ","j","a","n","s","s","e","n">>}}
    /\ lazy = NoLazy

SetRuleFeatures ==
    /\ pc = "apply"
    /\ applied.value = <<>>
    /\ applied' = [applied EXCEPT !.value =
                      <<set_rule_features(InitialFeatures, applied.arg.doc,
                                          applied.arg.head, publ_year[1],
                                          applied.arg.ocr_norm)>>]
    /\ UNCHANGED <<debug, ner, ne, pc, entities, entity_to_link, clusters_to_link,
                   clusters_linked, cur, publ_year, response, last, subjects,
                   context_subjects, self_context, lazy>>

SpecRules == InitRules /\ [][SetRuleFeatures]_vars

\* set_rule_features has been applied to applied.arg
RulesApplied ==
    /\ pc = "apply"
    /\ applied.fn = "set_rule_features"
    /\ applied.value # <<>>

(***************************************************************************)
(* C21: set_name_conflict sets match_str_conflict to 1 exactly when none   *)
(* of pref_label_exact, pref_label_end, alt_label_exact, alt_label_end,    *)
(* last_part and first_part is positive; a candidate whose pref_label is   *)
(* the norm of the head is never flagged nor removed by the filter for a   *)
(* name conflict.                                                          *)
(***************************************************************************)
C21_ConflictIffNoMatch ==
    RulesApplied =>
        LET f == applied.value[1]
        IN  /\ f.match_str_conflict = 1
               <=> ~ \/ f.match_str_pref_label_exact > 0
                     \/ f.match_str_pref_label_end > 0
                     \/ f.match_str_alt_label_exact > 0
                     \/ f.match_str_alt_label_end > 0
                     \/ f.match_str_last_part > 0
                     \/ f.match_str_first_part > 0
            /\ applied.arg.doc.pref_label = applied.arg.head.norm
                  => f.match_str_conflict = 0 /\ PassesFilter(f)

\* the pref_label is the norm of a one-word head, the document has a last
\* part and an alternative label that starts with the head's word and whose
\* rest is not in the article: the case of a first-part conflict
C21_Witness ==
    /\ RulesApplied
    /\ applied.arg.doc.pref_label = applied.arg.head.norm
    /\ Len(split(applied.arg.head.norm)) = 1
    /\ applied.arg.doc.last_part # <<>>
    /\ \E k \in DOMAIN applied.arg.doc.alt_label :
          /\ Len(split(applied.arg.doc.alt_label[k])) > 1
          /\ split(applied.arg.doc.alt_label[k])[1] = applied.arg.head.norm
          /\ find(applied.arg.ocr_norm,
                  join(Tail(split(applied.arg.doc.alt_label[k])))) = -1
    /\ applied.value[1].match_str_conflict = 0

RECURSIVE Pointers(_, _, _)
\* the values target_pos takes in the alignment of the preceding parts source
\* with the label tokens target, up to a conflict
Pointers(source, target, seen) ==
    IF source = <<>> \/ AlignStep(Head(source), target, seen[Len(seen)]) = -1
    THEN seen
    ELSE Pointers(Tail(source), target,
                  Append(seen, AlignStep(Head(source), target, seen[Len(seen)])))

(***************************************************************************)
(* C22: in the preceding-part alignment of set_last_part_match the pointer *)
(* target_pos over the tokens of the label never decreases from one part   *)
(* of the stripped head to the next.                                       *)
(***************************************************************************)
C22_PointerNeverDecreases ==
    RulesApplied =>
        \A l \in {applied.arg.doc.pref_label} \cup Range(applied.arg.doc.alt_label) :
            LET source == split(applied.arg.head.stripped)
                target == split(l)
                seen == Pointers(SubSeq(source, 1, Len(source) - 1), target, <<0>>)
            IN  (/\ LabelMatch(l, applied.arg.head.norm) = "none"
                 /\ Len(source) <= Len(target)
                 /\ distance(source[Len(source)], target[Len(target)]) <= 1)
                    => \A i \in 1..(Len(seen) - 1) : seen[i] <= seen[i + 1]

(***************************************************************************)
(* Whole requests for the articles of up to MaxNames names: queues of      *)
(* several clusters, one of which can be split while others wait.          *)
(***************************************************************************)
SpecQueue == InitNames /\ [][Next]_vars

(***************************************************************************)
(* C23: the work loop is last-in-first-out: the cluster linked in a step   *)
(* is the last one of the queue, the clusters queued before it stay in     *)
(* place, and the clusters of a split are put after them, so that they are *)
(* linked before any cluster that was already queued.                      *)
(***************************************************************************)
C23_LastInFirstOut ==
    [][(pc = "loop" /\ pc' = "loop" /\ last'.n = last.n + 1) =>
          LET queue == SubSeq(clusters_to_link, 1, Len(clusters_to_link) - 1)
          IN  /\ last'.cluster = clusters_to_link[Len(clusters_to_link)]
              /\ Len(clusters_to_link') >= Len(queue)
              /\ SubSeq(clusters_to_link', 1, Len(queue)) = queue
              /\ SubSeq(clusters_to_link', Len(queue) + 1, Len(clusters_to_link'))
                    = last'.new_clusters]_vars

\* a cluster has been split while another cluster was waiting in the queue
C23_Witness ==
    /\ pc = "loop"
    /\ last.split
    /\ Len(clusters_to_link) > Len(last.new_clusters)

\* the clusters just before the k-th mention in sorted order is placed
ClustersBefore(k) ==
    ClusterAll(entities,
               SubSeq(SortEntities(entities, list([i \in DOMAIN entities |-> i]), <<>>),
                      1, k - 1),
               <<>>)

(***************************************************************************)
(* C24: cluster appends a mention that matches no cluster exactly to an    *)
(* existing cluster only if exactly one cluster qualifies under last-part  *)
(* extension or first-name attachment; with none or several it starts a    *)
(* singleton cluster; an exact match wins over the partial rules; in every *)
(* case one cluster gains the mention and the others are unchanged.        *)
(***************************************************************************)
C24_PlacementRule ==
    pc = "loop" =>
        \A k \in DOMAIN entities :
            LET x == SortEntities(entities, list([i \in DOMAIN entities |-> i]), <<>>)[k]
                before == ClustersBefore(k)
                after == ClustersBefore(k + 1)
                exact == {i \in DOMAIN before : ExactMatch(entities, x, before[i])}
                partial == {i \in DOMAIN before : PartialMatch(entities, x, before[i])}
                gains == {i \in DOMAIN before : after[i] = Append(before[i], x)}
                same == {i \in DOMAIN before : after[i] = before[i]}
            IN  /\ Len(after) >= Len(before)
                /\ gains \cup same = DOMAIN before
                /\ IF exact # {}
                   THEN /\ Len(after) = Len(before)
                        /\ gains = {CHOOSE i \in exact : \A j \in exact : i <= j}
                   ELSE IF Cardinality(partial) = 1
                   THEN Len(after) = Len(before) /\ gains = partial
                   ELSE /\ after = Append(before, <<x>>)
                        /\ gains = {}

\* three mentions: the second joined the first by a partial rule, and the
\* third, for which both rules or several clusters qualify, did what the rule
\* says for it (here: a first name that two clusters could take)
C24_Witness ==
    /\ pc = "loop"
    /\ Len(entities) = 3
    /\ Len(ClustersBefore(4)) = 3
    /\ \E k \in DOMAIN entities :
          Cardinality({i \in DOMAIN ClustersBefore(k) :
                          PartialMatch(entities,
                                       SortEntities(entities,
                                                    list([j \in DOMAIN entities |-> j]),
                                                    <<>>)[k],
                                       ClustersBefore(k)[i])}) = 2

(***************************************************************************)
(* C25: for a mention found in the OCR text, the right window holds the    *)
(* first (at most WINDOW_SIZE) tokens that follow the nearest whitespace   *)
(* after the end of the mention; in an OCR text whose whitespace is single *)
(* spaces a mention followed by a further token has a non-empty right      *)
(* window.                                                                 *)
(***************************************************************************)
C25_RightWindowHoldsFollowingTokens ==
    \A i \in DOMAIN entities :
        LET e == entities[i]
            following == findFrom(Ocr(ner), <<" ">>, e.end_pos)
        IN  (e.start_pos >= 0 /\ following >= 0)
            => /\ e.window_right =
                    firstN(tokenize(SubSeq(Ocr(ner), following + 1, Len(Ocr(ner)))),
                           WINDOW_SIZE)
               /\ e.window_right # <<>>

(***************************************************************************)
(* Entity.substitute applied to mentions of one or two words, with and     *)
(* without a title in front.                                               *)
(***************************************************************************)
InitSub ==
    /\ debug = FALSE
    /\ ner = <<>>
    /\ ne = <<>>
    /\ pc = "apply"
    /\ entities = <<>>
    /\ entity_to_link = 0
    /\ clusters_to_link = <<>>
    /\ clusters_linked = <<>>
    /\ cur = NoDetail
    /\ publ_year = <<0>>
    /\ response = NoResponse
    /\ last = NoLast
    /\ subjects = dictionary_subjects
    /\ context_subjects = <<>>
    /\ self_context = OwnContext
    /\ \E text \in
          LET W == {<<"v","o","s","s">>, <<"v","o","s">>, <<"m","a","r","y">>,
                    <<"b","o","s","c","h">>, <<"b","o","s","s","c","h","e">>,
                    <<"g","u","s","t","a","v">>, <<"g","u","s","t","a","w">>,
                    <<"j","a","n">>, <<"m","a","y","s">>, <<"a","s">>,
                    <<"v","r","i","e","s">>}
          IN  W \cup {join(<<a, b>>) : a \in W \cup {<<"m","i","n","i","s","t","e","r">>},
                                       b \in W} :
          applied = [fn |-> "substitute", arg |-> Entity(text, "person", text, 0),
                     value |-> <<>>]
    /\ lazy = NoLazy

Substitute ==
    /\ pc = "apply"
    /\ applied.value = <<>>
    /\ applied' = [applied EXCEPT !.value = <<substitute(applied.arg)>>]
    /\ UNCHANGED <<debug, ner, ne, pc, entities, entity_to_link, clusters_to_link,
                   clusters_linked, cur, publ_year, response, last, subjects,
                   context_subjects, self_context, lazy>>

SpecSub == InitSub /\ [][Substitute]_vars

\* substitute has been applied to applied.arg
SubApplied ==
    /\ pc = "apply"
    /\ applied.fn = "substitute"
    /\ applied.value # <<>>

\* the number of spelling rules whose condition the stripped form meets
RulesApplying(stripped) ==
    Cardinality({k \in 1..5 :
        <<find(stripped, <<"y">>) > -1,
          endswith(stripped, <<"s">>),
          re_search(stripped, RULE_SCH),
          re_search(stripped, RULE_V),
          re_search(stripped, RULE_W)>>[k]})

(***************************************************************************)
(* C26: substitute succeeds iff exactly one spelling rule applies to the   *)
(* stripped form; on failure norm, stripped and last_part are unchanged;   *)
(* on success only norm, stripped and last_part change (stripped to the    *)
(* variant, last_part to the last part of the variant) and the validity    *)
(* flag keeps its value.                                                   *)
(***************************************************************************)
C26_SubstituteIffOneRule ==
    SubApplied =>
        LET e == applied.arg
            ok == applied.value[1][1]
            after == applied.value[1][2]
        IN  /\ ok <=> RulesApplying(e.stripped) = 1
            /\ ~ok => after = e
            /\ ok => /\ after.stripped # e.stripped
                     /\ after.stripped \in Range(Subs(e.stripped))
                     /\ after.last_part = get_last_part(after.stripped)
                     /\ after.norm = replace(e.norm, e.stripped, after.stripped)
                     /\ \A f \in DOMAIN e \ {"norm", "stripped", "last_part"} :
                            after[f] = e[f]

\* a successful substitution after which the kept validity flag differs from
\* what is_valid gives for the new forms
C26_Witness ==
    /\ SubApplied
    /\ applied.value[1][1]
    /\ applied.arg.valid
    /\ ~is_valid(applied.value[1][2].norm, applied.value[1][2].stripped,
                 applied.value[1][2].last_part)

\* the mention lists of the queued clusters followed by those of the linked ones
AllClusters ==
    clusters_to_link \o list([k \in DOMAIN clusters_linked |-> clusters_linked[k].entities])

\* the places <<cluster, position>> of mention i in a list of clusters
Places(i, cs) == {<<k, p>> \in (DOMAIN cs) \X (DOMAIN entities) : p <= Len(cs[k]) /\ cs[k][p] = i}

(***************************************************************************)
(* C27: when no specific mention is requested, at the start of every       *)
(* iteration of the work loop and when the loop has ended every mention    *)
(* belongs to exactly one cluster among the queued and the linked          *)
(* clusters, no cluster is empty, and a split yields non-empty, pairwise   *)
(* disjoint clusters whose union is the cluster that was split.            *)
(***************************************************************************)
C27_Partition ==
    (ne = <<>> /\ (pc = "loop" \/ Completed)) =>
        /\ \A i \in DOMAIN entities : Cardinality(Places(i, AllClusters)) = 1
        /\ \A k \in DOMAIN AllClusters : AllClusters[k] # <<>>
        /\ last.split =>
              /\ \A k \in DOMAIN last.new_clusters : last.new_clusters[k] # <<>>
              /\ \A i \in Range(last.cluster) :
                    Cardinality(Places(i, last.new_clusters)) = 1
              /\ \A k \in DOMAIN last.new_clusters :
                    Range(last.new_clusters[k]) \subseteq Range(last.cluster)

\* a cluster was split while another cluster is already linked
C27_Witness ==
    /\ ne = <<>>
    /\ pc = "loop"
    /\ last.split
    /\ Len(last.new_clusters) >= 2
    /\ clusters_linked # <<>>
    /\ Len(entities) = MaxNames

(***************************************************************************)
(* C28: when the work loop has ended, any two mentions with the same       *)
(* surface text belong to the same linked cluster and share one result,    *)
(* also when the head of their cluster was changed by a spelling           *)
(* substitution.                                                           *)
(***************************************************************************)
C28_SameTextSameCluster ==
    (Completed /\ ne = <<>>) =>
        \A i, j \in DOMAIN entities :
            entities[i].text = entities[j].text
            => /\ \E k \in DOMAIN clusters_linked :
                     {i, j} \subseteq Range(clusters_linked[k].entities)
               /\ ResultsFor(i) = ResultsFor(j)
               /\ Cardinality(ResultsFor(i)) = 1

(***************************************************************************)
(* C29: with debug off, an exception raised while a cluster is linked      *)
(* makes the request answer {status: 'error', message: 'Error linking      *)
(* entity: ...'} without a linkedNEs field: the results of the clusters    *)
(* linked before are not returned and no queued cluster is processed       *)
(* afterwards.                                                             *)
(***************************************************************************)
C29_ErrorEndsRequest ==
    /\ [][(~debug /\ pc = "loop" /\ clusters_to_link # <<>> /\ last'.n = last.n)
          => /\ pc' = "done"
             /\ DOMAIN response' = {"status", "message"}
             /\ response'.status = "error"
             /\ response'.message[1] = "Error linking entity: "
             /\ clusters_linked' = clusters_linked]_vars
    /\ [][pc # "done"]_vars

\* the request has answered with the linking error while one cluster was
\* already linked
C29_Witness ==
    /\ ~debug
    /\ pc = "done"
    /\ response.status = "error"
    /\ response.message[1] = "Error linking entity: "
    /\ clusters_linked # <<>>

\* the calls of Cluster.link so far: those that returned and the one that
\* raised, if the request ended with an exception
Calls ==
    last.n + (IF pc = "raised" \/ (pc = "done" /\ response.status = "error")
              THEN 1 ELSE 0)

(***************************************************************************)
(* C30: for a context of n >= 1 mentions Cluster.link is called at most    *)
(* 2n - 1 times in one request, whatever the external services answer:    *)
(* every split replaces a cluster by at least two non-empty disjoint       *)
(* clusters, and a cluster of one mention is never split.                  *)
(***************************************************************************)
C30_AtMostTwoNMinusOneCalls ==
    Len(entities) >= 1 =>
        /\ Calls <= 2 * Len(entities) - 1
        /\ last.split =>
              /\ Len(last.new_clusters) >= 2
              /\ Len(last.cluster) >= 2
              /\ \A k \in DOMAIN last.new_clusters : last.new_clusters[k] # <<>>
              /\ \A k, l \in DOMAIN last.new_clusters :
                    k # l => Range(last.new_clusters[k]) \cap Range(last.new_clusters[l]) = {}

\* the bound is met: three mentions, five calls
C30_Witness ==
    /\ Len(entities) = MaxNames
    /\ last.n = 2 * MaxNames - 1
    /\ Completed

====
